---- MODULE Spec2Model ----
(***************************************************************************)
(* Energy-Consumption-Dashboard: the forecast panel of AnalysisSection     *)
(* (src/src/components/AnalysisSection.tsx).                               *)
(*                                                                         *)
(* Numbers.  A JavaScript number is modelled in fixed point: a quantity in *)
(* kWh or RWF is an integer count of thousandths (12.345 kWh is 12345), a  *)
(* multiplicative factor is an integer count of thousandths too, and NaN   *)
(* is one distinguished value that every arithmetic step propagates and    *)
(* every comparison answers FALSE on, as IEEE-754 does.  Infinity does not *)
(* arise: every division of the code is guarded against a zero divisor     *)
(* and the inputs are bounded.  toFixed(2) rounds to hundredths, that is   *)
(* to a multiple of 10 thousandths.                                        *)
(***************************************************************************)
EXTENDS Integers, Sequences, FiniteSets, TLC

VARIABLES
    \* ---- computeClientFallbackForecast called on its own ----
    historicalData,   \* the historicalData argument
    monthsAhead,      \* the monthsAhead argument
    nowMonth,         \* new Date().getMonth(), 0..11
    result,           \* the TimeSeriesResponse returned, NoForecast before the call
    randoms,          \* the Math.random() values the call drew, one per month
    \* ---- AnalysisSection: props and React state ----
    isAdmin,          \* prop isAdmin
    reports,          \* prop reports: sequence of [timestamp, consumption]
    showForecast,     \* useState(false)
    forecastData,     \* useState(null): NoForecast, a server response or a fallback
    isLoading,        \* useState(false)
    error,            \* useState(null): "null" or the message
    sortKey,          \* useState('month')
    sortDir,          \* useState('asc')
    exportedCsv,      \* lines of the last file handleExportForecastCsv made, 0 when none
    \* ---- one fetchForecast run ----
    pc,               \* the await the run is suspended at, "idle" when none
    sarimaAvailable,  \* local sarimaAvailable: "undefined", "true", "false"
    runHistorical,    \* local historicalData of the run
    firstResponse,    \* what the first POST came back as: "none" before it settles,
                      \* "rejected", "notok", "ok" (body not read yet), "ok_read",
                      \* "ok_unreadable" (response.json() rejected)
    retryResponse,    \* the same for the retry POST
    serverMessage,    \* local serverMessage: the text read from a non-OK answer
    forecastPosts,    \* POSTs to the forecast endpoint the run has made so far
    \* ---- App (src/unnamed/part_000): React state, backend, fetches ----
    role,             \* useState('Household User'): 'Admin' or 'Household User'
    activeSection,    \* useState('prediction')
    appReports,       \* App's useState reports: sequence of [id, ownerId]
    database,         \* the backend's report documents: their ownerIds, in order
    fetches,          \* the fetchReportsFromDB calls made: [seq, role, stage], the
                      \* stage "primary" or "fallback" (the request awaited),
                      \* "stored" (setReports ran) or "failed" (the catch ran)
    issued,           \* fetchReportsFromDB calls made so far
    reportsFrom,      \* history: the call whose setReports(mapped) ran last
    effectsPending,   \* a render with a new role is committed and the effects
                      \* of lines 39-41 and 137-140 have not run yet
    \* ---- PredictionSection (src/unnamed/part_006 lines 133-300) ----
    prediction,       \* its React state and the calculatePredictions run under way
    reported,         \* history: the prediction responses onGenerateReport was
                      \* called with, in order
    \* ---- FeedbackWidget (src/unnamed/part_006 lines 1216-1293) ----
    feedback,         \* its React state and the handleSubmit run under way
    backendFeedback,  \* the payloads the backend answered OK to, in order
    \* ---- the browser ----
    localStorage,     \* the items 'pl_household_id' and 'pl_feedback_queue'
    clock,            \* Date.now()
    householdIds      \* history: per start of App, in order, its currentHouseholdId
                      \* (id) and whether storage held it when the start ended (kept)

vars == <<historicalData, monthsAhead, nowMonth, result, randoms, isAdmin, reports,
          showForecast, forecastData, isLoading, error, sortKey, sortDir, exportedCsv,
          pc, sarimaAvailable, runHistorical, firstResponse, retryResponse,
          serverMessage, forecastPosts, role, activeSection, appReports, database,
          fetches, issued, reportsFrom, effectsPending, prediction, reported, feedback,
          backendFeedback, localStorage, clock, householdIds>>

appVars == <<role, activeSection, appReports, database, fetches, issued, reportsFrom,
             effectsPending>>
browserVars == <<prediction, reported, feedback, backendFeedback, localStorage, clock,
                 householdIds>>
fallbackVars == <<historicalData, monthsAhead, nowMonth, result, randoms>>
tableVars == <<sortKey, sortDir, exportedCsv>>
sectionVars == <<isAdmin, reports, showForecast, forecastData, isLoading, error,
                 sortKey, sortDir, exportedCsv, pc, sarimaAvailable, runHistorical,
                 firstResponse, retryResponse, serverMessage, forecastPosts>>

-----------------------------------------------------------------------------
(* Bounds of the model *)

\* longest historical series handed to computeClientFallbackForecast
MaxLen == 12
\* largest forecast horizon (months_ahead)
MaxMonths == 3
\* most reports the AnalysisSection is given
MaxReports == 3

\* most fetchReportsFromDB calls App makes
MaxFetches == 3
\* most report documents the backend holds
MaxDocs == 2
\* most appliances in the PredictionSection's list
MaxAppliances == 2
\* most valid feedback submissions of one FeedbackWidget
MaxSubmissions == 2

-----------------------------------------------------------------------------
(* JavaScript numbers *)

\* NaN: a value outside the range of every quantity of the model
NaN == -(10^9)

\* one kWh (or one RWF, or the factor 1.0) in thousandths
Unit(k) == k * 1000

IsNaN(x) == x = NaN

\* isFinite(x): no Infinity arises in the model, so only NaN is non-finite
isFinite(x) == ~IsNaN(x)

\* a <= b, a > b and a === b of JavaScript: FALSE as soon as one side is NaN
JsLe(a, b) == ~IsNaN(a) /\ ~IsNaN(b) /\ a <= b
JsGt(a, b) == ~IsNaN(a) /\ ~IsNaN(b) /\ a > b
JsEq(a, b) == ~IsNaN(a) /\ ~IsNaN(b) /\ a = b

\* a + b
JsAdd(a, b) == IF IsNaN(a) \/ IsNaN(b) THEN NaN ELSE a + b

\* Math.max(a, b): NaN if either argument is NaN
MathMax(a, b) == IF IsNaN(a) \/ IsNaN(b) THEN NaN ELSE IF a >= b THEN a ELSE b

\* x || d: d when x is falsy (0 or NaN)
JsOr(x, d) == IF IsNaN(x) \/ x = 0 THEN d ELSE x

\* a % 12 of JavaScript: the remainder takes the sign of the dividend
JsMod12(a) == IF a >= 0 THEN a % 12 ELSE -((-a) % 12)

\* parseFloat(v.toFixed(2)): round half away from zero to hundredths
toFixed2(v) ==
    IF IsNaN(v) THEN NaN
    ELSE IF v >= 0 THEN ((v + 5) \div 10) * 10
    ELSE -((((-v) + 5) \div 10) * 10)

\* parseFloat((num / den).toFixed(2)) for a quotient of two model quantities,
\* den > 0: the quotient is rounded once, from its exact value
toFixed2Quot(num, den) ==
    IF IsNaN(num) THEN NaN
    ELSE IF num >= 0 THEN ((2 * num + 10 * den) \div (20 * den)) * 10
    ELSE -(((2 * (-num) + 10 * den) \div (20 * den)) * 10)

\* arr.reduce((a, b) => a + b, 0)
RECURSIVE SumTo(_, _)
SumTo(s, k) == IF k = 0 THEN 0 ELSE JsAdd(SumTo(s, k - 1), s[k])
SumSeq(s) == SumTo(s, Len(s))

\* Math.sqrt on a non-negative integer: the integer square root, by bisection
\* between lo (lo * lo <= x) and hi (hi * hi > x)
RECURSIVE SqrtBetween(_, _, _)
SqrtBetween(x, lo, hi) ==
    IF hi - lo <= 1 THEN lo
    ELSE LET mid == (lo + hi) \div 2
         IN  IF mid * mid <= x THEN SqrtBetween(x, mid, hi) ELSE SqrtBetween(x, lo, mid)
MathSqrt(x) == SqrtBetween(x, 0, 46340)

Abs(x) == IF x >= 0 THEN x ELSE -x
Min(a, b) == IF a <= b THEN a ELSE b

-----------------------------------------------------------------------------
(* computeClientFallbackForecast, AnalysisSection.tsx 123-232 *)

\* program constants, in kWh and RWF per kWh
baseline == 5
Tier1Limit == 20
Tier2Limit == 50
Tier1Rate == 89
Tier2Rate == 310
Tier3Rate == 369

\* const mean = n ? sum / n : 0, in thousandths
mean(h) ==
    IF Len(h) = 0 THEN 0
    ELSE IF IsNaN(SumSeq(h)) THEN NaN
    ELSE SumSeq(h) \div Len(h)

\* const variance = n ? sum((b - mean)^2) / n : 0; stddev = Math.sqrt(variance || 0).
\* Each deviation b - mean = (n*b - sum) / n is taken in hundredths so that the
\* squares fit; the root is returned in thousandths (resolution 0.002).
stddev(h) ==
    LET n == Len(h)
        S == SumSeq(h)
        sq(d) == d * d
        variance == SumSeq([i \in 1..n |-> sq(Abs(n * h[i] - S) \div (10 * n))]) \div n
    IN  IF n = 0 THEN 0
        ELSE IF IsNaN(S) THEN NaN
        ELSE 2 * MathSqrt(25 * variance)

\* if (n === 0 || mean === 0): the sum is compared, the quotient being 0 exactly
\* when the sum is
degenerateNoData(h) == Len(h) = 0
degenerate(h) == Len(h) = 0 \/ JsEq(SumSeq(h), 0)

\* intercept + slope * t, the regression of historicalData on x = 0..n-1.
\* With cov2n = sum (2i-n+1)(n*y_i - sum) = 2n*cov and varX4 = sum (2i-n+1)^2
\* = 4*varX, slope = cov / (varX || 1) and intercept = mean - slope*(n-1)/2 give
\* trendVal = (sum*varX4 + cov2n*(2t-n+1)) / (n*varX4), one exact quotient.
trendVal(h, t) ==
    LET n == Len(h)
        S == SumSeq(h)
        cov2n == SumSeq([i \in 1..n |-> (2 * (i - 1) - n + 1) * (n * h[i] - S)])
        varX4 == JsOr(SumSeq([i \in 1..n |-> (2 * (i - 1) - n + 1) * (2 * (i - 1) - n + 1)]), 4)
    IN  IF IsNaN(S) THEN NaN
        ELSE (S * varX4 + cov2n * (2 * t - n + 1)) \div (n * varX4)

\* monthSeason[m] after the two loops of lines 148-156: the average of the entries
\* mapped to calendar month m, 0 when none is
monthSeason(h, now, m) ==
    LET n == Len(h)
        idx == {i \in 1..n : JsMod12(now - (n - 1 - (i - 1)) + 12) = m}
        picked == [i \in 1..n |-> IF i \in idx THEN h[i] ELSE 0]
    IN  IF idx = {} THEN 0
        ELSE IF \E i \in idx : IsNaN(h[i]) THEN NaN
        ELSE SumSeq(picked) \div Cardinality(idx)

\* sin(t * PI / 6) in thousandths
SinTable == <<0, 500, 866, 1000, 866, 500, 0, -500, -866, -1000, -866, -500>>
MathSin6(t) == SinTable[(t % 12) + 1]

\* the seasonality factor of month i (lines 163-172), in thousandths
seasonalFactor(h, now, i) ==
    LET n == Len(h)
        t == n + i
        futureMonth == (now + i + 1) % 12
        monthAvg == JsOr(monthSeason(h, now, futureMonth), mean(h))
    IN  IF n >= 12
        THEN \* monthAvg / mean || 1
             IF IsNaN(monthAvg) \/ IsNaN(mean(h)) \/ mean(h) = 0 THEN Unit(1)
             ELSE JsOr((1000 * monthAvg) \div mean(h), Unit(1))
        ELSE \* 1 + 0.05 * Math.sin(t * Math.PI / 6)
             Unit(1) + (50 * MathSin6(t) + 500) \div 1000

\* Math.random() is r / 1000 with r in 0..999:
\* noise = (stddev || Math.max(1, mean * 0.1)) * (Math.random() * 0.1 - 0.05)
noiseNotCentred(h, r) ==
    LET base == JsOr(stddev(h), MathMax(Unit(1), IF IsNaN(mean(h)) THEN NaN ELSE mean(h) \div 10))
    IN  IF IsNaN(base) THEN NaN ELSE (base * r) \div 10000
noise(h, r) ==
    LET base == JsOr(stddev(h), MathMax(Unit(1), IF IsNaN(mean(h)) THEN NaN ELSE mean(h) \div 10))
    IN  IF IsNaN(base) THEN NaN ELSE (base * (r - 500)) \div 10000

\* lines 177-185: Math.max(0, .), the mean-based replacement of a non-finite or
\* non-positive value, and the floor max(0.1, 0.05 * mean)
unclampedVal(raw, m, i) == MathMax(0, raw)
clampValFromMonthZero(raw, m, i) ==
    LET val == MathMax(0, raw)
        sane == IF ~isFinite(val) \/ JsLe(val, 0)
                THEN (IF IsNaN(m) THEN NaN ELSE (m * (100 + 2 * i)) \div 100)
                ELSE val
    IN  MathMax(sane, MathMax(100, IF IsNaN(m) THEN NaN ELSE m \div 20))
clampVal(raw, m, i) ==
    LET val == MathMax(0, raw)
        sane == IF ~isFinite(val) \/ JsLe(val, 0)
                THEN (IF IsNaN(m) THEN NaN ELSE (m * (100 + 2 * (i + 1))) \div 100)
                ELSE val
    IN  MathMax(sane, MathMax(100, IF IsNaN(m) THEN NaN ELSE m \div 20))

\* trendVal * seasonalFactor of month i (0-based), line 177
seasoned(h, now, i) ==
    LET tv == trendVal(h, Len(h) + i)
    IN  IF IsNaN(tv) THEN NaN ELSE (tv * seasonalFactor(h, now, i)) \div 1000

\* the value pushed for month i (0-based) in the regression branch, lines 159-187
predVal(h, now, i, r) ==
    toFixed2(clampVal(JsAdd(seasoned(h, now, i), noise(h, r)), mean(h), i))

\* preds after lines 133-188; draws[i] is the Math.random() of month i
predsOneShort(h, months, now, draws) ==
    IF degenerate(h)
    THEN [i \in 1..(months - 1) |-> Unit(baseline)]
    ELSE [i \in 1..(months - 1) |-> predVal(h, now, i - 1, draws[i])]
preds(h, months, now, draws) ==
    IF degenerate(h)
    THEN [i \in 1..months |-> Unit(baseline)]
    ELSE [i \in 1..months |-> predVal(h, now, i - 1, draws[i])]

\* the tariff of lines 191-195 on one prediction p, before its rounding
tariffFlatRate(p) == IF IsNaN(p) THEN NaN ELSE p * Tier1Rate
tariffTier2FromZero(p) ==
    IF JsLe(p, Unit(Tier1Limit)) THEN p * Tier1Rate
    ELSE IF JsLe(p, Unit(Tier2Limit)) THEN (p - Unit(Tier1Limit)) * Tier2Rate
    ELSE IF IsNaN(p) THEN NaN
    ELSE Unit(Tier1Limit * Tier1Rate) + Unit((Tier2Limit - Tier1Limit) * Tier2Rate)
         + (p - Unit(Tier2Limit)) * Tier3Rate
tariff(p) ==
    IF JsLe(p, Unit(Tier1Limit)) THEN p * Tier1Rate
    ELSE IF JsLe(p, Unit(Tier2Limit))
         THEN Unit(Tier1Limit * Tier1Rate) + (p - Unit(Tier1Limit)) * Tier2Rate
    ELSE IF IsNaN(p) THEN NaN
    ELSE Unit(Tier1Limit * Tier1Rate) + Unit((Tier2Limit - Tier1Limit) * Tier2Rate)
         + (p - Unit(Tier2Limit)) * Tier3Rate

\* billPreds: preds.map(tariff).map(v => parseFloat(v.toFixed(2)))
billPreds(ps) == [i \in 1..Len(ps) |-> toFixed2(tariff(ps[i]))]

\* tariff_bracket of line 208
tariff_bracket(p) ==
    IF JsLe(p, Unit(Tier1Limit)) THEN "0-20 kWh"
    ELSE IF JsLe(p, Unit(Tier2Limit)) THEN "21-50 kWh"
    ELSE "50+ kWh"

\* confidence of line 209
confidenceUpTo12(n) == IF n > 12 THEN "medium" ELSE IF n >= 6 THEN "low-medium" ELSE "low"
confidence(n) == IF n >= 12 THEN "medium" ELSE IF n >= 6 THEN "low-medium" ELSE "low"

\* the calendar month of prediction i (1-based), for the label of lines 197-202
futureMonthOf(now, i) == (now + i) % 12

\* predictions of lines 204-210
predictions(h, ps, now) ==
    [i \in 1..Len(ps) |->
        [month |-> futureMonthOf(now, i),
         predicted_consumption_kwh |-> ps[i],
         predicted_bill_rwf |-> billPreds(ps)[i],
         tariff_bracket |-> tariff_bracket(ps[i]),
         confidence |-> confidence(Len(h))]]

\* historicalData.slice(-3)
lastThree(h) == SubSeq(h, IF Len(h) > 3 THEN Len(h) - 2 ELSE 1, Len(h))

\* round(10000 * d / q) for d >= 0, q > 0, by long division so that no product
\* leaves the integer range
RoundedRatio(d, q) ==
    LET q0 == d \div q
        r0 == d % q
        q1 == (r0 * 100) \div q
        r1 == (r0 * 100) % q
        q2 == (r1 * 100) \div q
        r2 == (r1 * 100) % q
    IN  q0 * 10000 + q1 * 100 + q2 + (IF 2 * r2 >= q THEN 1 ELSE 0)

\* trend of line 214: forecastAvg > histAvg, the two quotients compared by
\* cross-multiplication (sumP / m > sumH / k)
trendAtLeast(h, ps) ==
    LET sumP == SumSeq(ps)
        sumH == SumSeq(lastThree(h))
        m == IF Len(ps) = 0 THEN 1 ELSE Len(ps)
        k == IF Len(h) = 0 THEN 1 ELSE Min(3, Len(h))
    IN  IF IsNaN(sumP) \/ IsNaN(sumH) THEN "decreasing"
        ELSE IF sumP * k >= sumH * m THEN "increasing" ELSE "decreasing"
trend(h, ps) ==
    LET sumP == SumSeq(ps)
        sumH == SumSeq(lastThree(h))
        m == IF Len(ps) = 0 THEN 1 ELSE Len(ps)
        k == IF Len(h) = 0 THEN 1 ELSE Min(3, Len(h))
    IN  IF IsNaN(sumP) \/ IsNaN(sumH) THEN "decreasing"
        ELSE IF sumP * k > sumH * m THEN "increasing" ELSE "decreasing"

\* trend_percentage of line 215, a percentage in thousandths:
\* histAvg ? parseFloat((((forecastAvg - histAvg) / histAvg) * 100).toFixed(2)) : 0
trend_percentage(h, ps) ==
    LET sumP == SumSeq(ps)
        sumH == SumSeq(lastThree(h))
        m == IF Len(ps) = 0 THEN 1 ELSE Len(ps)
        k == IF Len(h) = 0 THEN 1 ELSE Min(3, Len(h))
        d == sumP * k - sumH * m
    IN  IF IsNaN(sumH) \/ sumH = 0 THEN 0
        ELSE IF IsNaN(sumP) THEN NaN
        ELSE IF sumH > 0
             THEN (IF d >= 0 THEN 10 * RoundedRatio(d, sumH * m)
                   ELSE -(10 * RoundedRatio(-d, sumH * m)))
        ELSE (IF d >= 0 THEN -(10 * RoundedRatio(d, -(sumH * m)))
              ELSE 10 * RoundedRatio(-d, -(sumH * m)))

\* the aggregates of lines 223-226
total_forecasted_consumption(ps) == toFixed2(SumSeq(ps))
total_forecasted_bill(bills) == toFixed2(SumSeq(bills))
average_monthly_consumption(ps) ==
    IF Len(ps) = 0 THEN 0 ELSE toFixed2Quot(SumSeq(ps), Len(ps))
averageOverTwoMonths(bills) == toFixed2Quot(SumSeq(bills), 2)
average_monthly_bill(bills) ==
    toFixed2Quot(SumSeq(bills), IF Len(bills) = 0 THEN 1 ELSE Len(bills))

\* forecastData before any forecast: null
NoForecast == [model_used |-> "null"]

\* the object returned at lines 217-231 (message and forecast_id, a fixed text
\* and a clock reading, are left out)
computeClientFallbackForecast(h, months, now, draws) ==
    LET ps == preds(h, months, now, draws)
    IN  [status |-> "success",
         historical_data |-> [i \in 1..Len(h) |-> toFixed2(h[i])],
         forecast_months |-> months,
         predictions |-> predictions(h, ps, now),
         total_forecasted_consumption |-> total_forecasted_consumption(ps),
         total_forecasted_bill |-> total_forecasted_bill(billPreds(ps)),
         average_monthly_consumption |-> average_monthly_consumption(ps),
         average_monthly_bill |-> average_monthly_bill(billPreds(ps)),
         trend |-> trend(h, ps),
         trend_percentage |-> trend_percentage(h, ps),
         model_used |-> "client_fallback"]

-----------------------------------------------------------------------------
(* Inputs of the model *)

\* consumptions a report can carry, in thousandths of a kWh
Consumptions == {0, Unit(10), Unit(30), Unit(60)}

\* the Math.random() draws the model takes, in thousandths: both ends of
\* [0, 1) and its middle
NoiseDraws == {0, 500, 999}

\* new Date().getMonth() values the model takes
NowMonths == {0, 10}

\* a series of n entries: a up to position k, b after it
StepSeries(n, k, a, b) == [i \in 1..n |-> IF i <= k THEN a ELSE b]

\* where the step of a series of n entries is put: nowhere (a constant series),
\* after the first entry, in the middle, before the last entry
StepPositions(n) == {0} \cup ({1, n \div 2, n - 1} \cap (1..(n - 1)))

\* a series of n entries rising (d > 0) or falling (d < 0) by d each month from a
RampSeries(n, a, d) == [i \in 1..n |-> IF a + (i - 1) * d >= 0 THEN a + (i - 1) * d ELSE 0]

\* consumptions of a household that uses little: under 10 kWh, where 10% of
\* the mean is under 1, and under 0.1 kWh, where the absolute floor of line 185
\* is above the mean
LowConsumptions == {50, Unit(4)}

\* the historical series the model takes: every length up to MaxLen; constant
\* series, series with one step between any two values (NaN, an entry that
\* did not parse, included), ramps, and constant series of little usage
HistoricalSeries ==
    UNION {{StepSeries(n, k, a, b) :
                k \in StepPositions(n), a \in Consumptions \cup {NaN}, b \in Consumptions \cup {NaN}} :
           n \in 0..MaxLen}
    \cup {RampSeries(n, a, d) : n \in 1..MaxLen, a \in {Unit(10), Unit(60)}, d \in {Unit(10), -Unit(10)}}
    \cup {StepSeries(n, 0, a, a) : n \in 1..MaxLen, a \in LowConsumptions}

-----------------------------------------------------------------------------
(* computeClientFallbackForecast called on its own: SpecFallback *)

\* The calendar month reaches the predicted values only through the
\* month-of-year averages of a series of 12 entries or more.
\* the payload of a feedback submission (src/unnamed/part_006 lines 1244-1251):
\* createdAt is the number of the submission; none before the first
NoPayload ==
    [name |-> <<>>, location |-> <<>>, message |-> <<>>, rating |-> 0, createdAt |-> 0]

\* what localStorage.getItem('pl_feedback_queue') holds: json is "null" when the
\* item is absent, "array" for the text of an array of payloads (items),
\* "object" for the text of a value that is no array, "invalid" for a text
\* JSON.parse rejects
NoItem == [json |-> "null", items |-> <<>>]

\* PredictionSection's state as useState leaves it, src/unnamed/part_006 lines
\* 134-154, with no calculatePredictions run under way
PredictionJustConstructed ==
    /\ prediction = [appliances |-> 0, householdData |-> "empty", isLoading |-> FALSE,
                     error |-> "null", hasGeneratedReport |-> FALSE, predictions |-> 0,
                     showSuccess |-> FALSE, apiStatus |-> "null",
                     pc |-> "idle", clickHasGeneratedReport |-> FALSE, responses |-> 0]
    /\ reported = <<>>

\* FeedbackWidget's state as useState leaves it, src/unnamed/part_006 lines
\* 1217-1224, with no handleSubmit run under way and nothing sent
FeedbackJustConstructed ==
    /\ feedback = [name |-> <<>>, location |-> <<>>, message |-> <<>>, rating |-> 0,
                   submitting |-> FALSE, success |-> "null", error |-> "null",
                   pc |-> "idle", payload |-> NoPayload, submissions |-> 0]
    /\ backendFeedback = <<>>

\* what localStorage.getItem('pl_household_id') holds: stored is FALSE when the
\* item is absent (getItem answers null), else text is the stored string as a
\* sequence of characters
NoId == [stored |-> FALSE, text |-> <<>>]
StoredId(text) == [stored |-> TRUE, text |-> text]

\* a browser storage that holds neither item, and no start of App yet
BrowserJustOpened ==
    /\ localStorage = [pl_household_id |-> NoId, pl_feedback_queue |-> NoItem]
    /\ clock = 1
    /\ householdIds = <<>>

\* App's state as useState leaves it, src/unnamed/part_000 lines 16-25, before
\* any effect has run and with an empty backend
AppJustConstructed ==
    /\ role = "Household User"
    /\ activeSection = "prediction"
    /\ appReports = <<>>
    /\ database = <<>>
    /\ fetches = {}
    /\ issued = 0
    /\ reportsFrom = [seq |-> 0, role |-> "none"]
    /\ effectsPending = FALSE

InitFallback ==
    /\ historicalData \in HistoricalSeries
    /\ monthsAhead \in 1..MaxMonths
    /\ nowMonth \in (IF Len(historicalData) >= 12 THEN NowMonths ELSE {10})
    /\ result = NoForecast
    /\ randoms = <<>>
    /\ isAdmin = FALSE
    /\ reports = <<>>
    /\ showForecast = FALSE
    /\ forecastData = NoForecast
    /\ isLoading = FALSE
    /\ error = "null"
    /\ pc = "idle"
    /\ sarimaAvailable = "undefined"
    /\ runHistorical = <<>>
    /\ firstResponse = "none"
    /\ retryResponse = "none"
    /\ serverMessage = <<>>
    /\ forecastPosts = 0
    /\ sortKey = "month"
    /\ sortDir = "asc"
    /\ exportedCsv = 0
    /\ PredictionJustConstructed
    /\ FeedbackJustConstructed
    /\ BrowserJustOpened
    /\ AppJustConstructed

\* one call: Math.random() is drawn once per predicted month
CallFallback ==
    /\ result = NoForecast
    /\ \E draws \in [1..monthsAhead -> NoiseDraws] :
          /\ randoms' = draws
          /\ result' = computeClientFallbackForecast(historicalData, monthsAhead, nowMonth, draws)
    /\ UNCHANGED <<historicalData, monthsAhead, nowMonth>>
    /\ UNCHANGED sectionVars
    /\ UNCHANGED appVars
    /\ UNCHANGED browserVars

NextFallback == CallFallback

SpecFallback == InitFallback /\ [][NextFallback]_vars

-----------------------------------------------------------------------------
(* Properties of computeClientFallbackForecast, checked under SpecFallback *)

returned == result # NoForecast

HasNaN(h) == \E i \in 1..Len(h) : IsNaN(h[i])
AllZero(h) == \A i \in 1..Len(h) : h[i] = 0
NonNegative(h) == \A i \in 1..Len(h) : ~IsNaN(h[i]) /\ h[i] >= 0

\* the predicted consumptions of the returned forecast
Predicted == [i \in 1..Len(result.predictions) |-> result.predictions[i].predicted_consumption_kwh]
Billed == [i \in 1..Len(result.predictions) |-> result.predictions[i].predicted_bill_rwf]

\* C1: for a non-empty series of non-negative values with mean > 0, every
\* horizon and every noise draw, each predicted consumption is a number
\* strictly greater than 0 after its rounding to 2 decimals.
C1_PredictionsPositive ==
    (returned /\ Len(historicalData) > 0 /\ NonNegative(historicalData)
        /\ ~AllZero(historicalData))
    => \A i \in 1..Len(Predicted) : ~IsNaN(Predicted[i]) /\ Predicted[i] > 0

\* C1 witness: a falling series whose regression line is below zero for the
\* forecast months, so that the clamp of lines 177-185 decides the value
C1_Witness ==
    /\ returned
    /\ Len(historicalData) > 0 /\ NonNegative(historicalData) /\ ~AllZero(historicalData)
    /\ monthsAhead >= 2
    /\ trendVal(historicalData, Len(historicalData)) < 0

\* C2: for an empty or all-zero series and any horizon N >= 1 the forecast has N
\* points, each of consumption exactly 5 kWh and bill exactly 445 RWF.
C2_BaselineWhenNoUsage ==
    (returned /\ AllZero(historicalData))
    => /\ Len(result.predictions) = monthsAhead
       /\ \A i \in 1..Len(result.predictions) :
             /\ Predicted[i] = 5000
             /\ Billed[i] = 445000

\* C2 witness: an all-zero series of a year, horizon 3
C2_Witness ==
    /\ returned
    /\ Len(historicalData) >= 12 /\ AllZero(historicalData)
    /\ monthsAhead = 3
    /\ Predicted = <<5000, 5000, 5000>>

\* C3: for every series and every positive months_ahead the predictions list
\* has exactly months_ahead entries and forecast_months equals months_ahead.
C3_LengthIsHorizon ==
    returned
    => /\ Len(result.predictions) = monthsAhead
       /\ result.forecast_months = monthsAhead

\* C3 witness: a forecast of 3 months from a series of 12 or more with usage
C3_Witness ==
    /\ returned
    /\ Len(historicalData) >= 12 /\ ~HasNaN(historicalData) /\ ~AllZero(historicalData)
    /\ monthsAhead = 3
    /\ Len(result.predictions) = 3

\* C6 (as claimed): if the series is empty or holds an entry that is not a
\* valid number, every predicted consumption equals the baseline 5.
C6_Claim_BaselineOnInvalidInput ==
    (returned /\ (Len(historicalData) = 0 \/ HasNaN(historicalData)))
    => \A i \in 1..Len(Predicted) : Predicted[i] = 5000

\* C7: every point's bill is the three-tier tariff of that point's own rounded
\* consumption c, a value of 2 decimals: c x 89 if c <= 20; 20 x 89 + (c - 20)
\* x 310 if 20 < c <= 50; 20 x 89 + 30 x 310 + (c - 50) x 369 if c > 50.
C7_BillIsTariffOfPrediction ==
    returned
    => \A i \in 1..Len(Predicted) :
          LET c == Predicted[i]
              b == Billed[i]
          IN  /\ JsLe(c, 20000) => b = c * 89
              /\ (JsGt(c, 20000) /\ JsLe(c, 50000)) => b = 1780000 + (c - 20000) * 310
              /\ JsGt(c, 50000) => b = 1780000 + 9300000 + (c - 50000) * 369
              /\ ~IsNaN(c) => (~IsNaN(b) /\ b % 10 = 0)

\* C7 witness: one forecast with a point in the first tier, one in the second
\* and one in the third
C7_Witness ==
    /\ returned
    /\ \E i \in 1..Len(Predicted) : JsLe(Predicted[i], 20000)
    /\ \E i \in 1..Len(Predicted) : JsGt(Predicted[i], 20000) /\ JsLe(Predicted[i], 50000)
    /\ \E i \in 1..Len(Predicted) : JsGt(Predicted[i], 50000)

\* C8 (as claimed): every point's tariff_bracket is '0-20 kWh' iff its
\* consumption c <= 20, '21-50 kWh' iff 20 < c <= 50, '50+ kWh' iff c > 50.
C8_Claim_BracketIffTier ==
    returned
    => \A i \in 1..Len(Predicted) :
          LET c == Predicted[i]
              label == result.predictions[i].tariff_bracket
          IN  /\ label = "0-20 kWh" <=> JsLe(c, 20000)
              /\ label = "21-50 kWh" <=> (JsGt(c, 20000) /\ JsLe(c, 50000))
              /\ label = "50+ kWh" <=> JsGt(c, 50000)

\* C9: the aggregates are those of the emitted points: the total consumption
\* is their sum within 0.01 per point, the total bill is the sum of their
\* bills, and each average is a value of 2 decimals within half a hundredth
\* of its sum divided by the number of points.  Where a point is NaN the sum
\* is NaN and so are the aggregates made from it.
C9_AggregatesOfEmittedPoints ==
    returned
    => LET n == Len(result.predictions)
           sumC == SumSeq(Predicted)
           sumB == SumSeq(Billed)
       IN  /\ IF IsNaN(sumC)
              THEN /\ IsNaN(result.total_forecasted_consumption)
                   /\ IsNaN(result.average_monthly_consumption)
              ELSE /\ Abs(result.total_forecasted_consumption - sumC) <= 10 * n
                   /\ result.average_monthly_consumption % 10 = 0
                   /\ Abs(result.average_monthly_consumption * n - sumC) <= 5 * n
           /\ IF IsNaN(sumB)
              THEN /\ IsNaN(result.total_forecasted_bill)
                   /\ IsNaN(result.average_monthly_bill)
              ELSE /\ result.total_forecasted_bill = sumB
                   /\ result.average_monthly_bill % 10 = 0
                   /\ Abs(result.average_monthly_bill * n - sumB) <= 5 * n

\* C9 witness: three points whose consumptions and bills do not divide evenly
\* by 3, so that both averages were rounded
C9_Witness ==
    /\ returned
    /\ monthsAhead = 3
    /\ ~IsNaN(SumSeq(Predicted))
    /\ SumSeq(Predicted) % 30 # 0
    /\ SumSeq(Billed) % 30 # 0

\* C10: every point carries the same confidence label, fixed by the length n of
\* the series alone: 'medium' iff n >= 12, 'low-medium' iff 6 <= n < 12, 'low'
\* iff n < 6.
C10_ConfidenceByLength ==
    returned
    => \A i \in 1..Len(result.predictions) :
          LET n == Len(historicalData)
              label == result.predictions[i].confidence
          IN  /\ label = "medium" <=> n >= 12
              /\ label = "low-medium" <=> (n >= 6 /\ n < 12)
              /\ label = "low" <=> n < 6

\* C10 witness: a series of exactly 12 entries, one of them not a number,
\* forecast over several months and labelled 'medium'
C10_Witness ==
    /\ returned
    /\ Len(historicalData) = 12 /\ HasNaN(historicalData)
    /\ monthsAhead >= 2
    /\ \A i \in 1..Len(result.predictions) : result.predictions[i].confidence = "medium"

\* the two means the trend compares, each as a sum and a count: the predicted
\* consumptions of the returned forecast, and the last min(3, n) historical values
ForecastSum == SumSeq(Predicted)
ForecastCount == IF Len(Predicted) = 0 THEN 1 ELSE Len(Predicted)
HistSum == SumSeq(lastThree(historicalData))
HistCount == IF Len(historicalData) = 0 THEN 1 ELSE Min(3, Len(historicalData))

\* forecastMean > histMean, a comparison that is FALSE when a mean is NaN
ForecastAboveHistory ==
    /\ ~IsNaN(ForecastSum) /\ ~IsNaN(HistSum)
    /\ ForecastSum * HistCount > HistSum * ForecastCount

\* 100 x (forecastMean - histMean) / histMean rounded to 2 decimals, for two
\* means that are numbers and histMean > 0
RelativeDifference ==
    LET d == ForecastSum * HistCount - HistSum * ForecastCount
        q == HistSum * ForecastCount
    IN  IF d >= 0 THEN 10 * RoundedRatio(d, q) ELSE -(10 * RoundedRatio(-d, q))

PreClamp(i) ==
    JsAdd(seasoned(historicalData, nowMonth, i), noise(historicalData, randoms[i + 1]))

\* the regression branch was taken on a series with n > 0 and mean > 0
RegressionBranch ==
    returned /\ Len(historicalData) > 0 /\ JsGt(mean(historicalData), 0)

\* mean x (1 + 0.02 x (i + 1)) and max(0.1, 0.05 x mean)
MeanExtrapolation(i) == (mean(historicalData) * (100 + 2 * (i + 1))) \div 100
SmallestPrediction == IF mean(historicalData) \div 20 > 100 THEN mean(historicalData) \div 20 ELSE 100

\* C12: in the regression branch (n > 0, mean > 0), for every month index i: if
\* regression x seasonal + noise is <= 0 the value is replaced by mean x (1 +
\* 0.02 x (i + 1)), otherwise it is kept; the value is then raised to
\* max(0.1, 0.05 x mean) where it is below, and rounded to 2 decimals; so every
\* emitted prediction is at least max(0.1, 0.05 x mean) up to that rounding.
C12_ClampRule ==
    RegressionBranch
    => \A i \in 0..(monthsAhead - 1) :
          \A raw \in {PreClamp(i)}, least \in {SmallestPrediction} :
             LET kept == IF raw <= 0 THEN MeanExtrapolation(i) ELSE raw
                 floored == IF kept >= least THEN kept ELSE least
             IN  /\ result.predictions[i + 1].predicted_consumption_kwh = ((floored + 5) \div 10) * 10
                 /\ result.predictions[i + 1].predicted_consumption_kwh >= least - 5

\* C12 witness: a forecast of several months in which one month's regression x
\* seasonal + noise was <= 0 and the month carries the extrapolation from the
\* mean, and another month's was positive but under the floor
C12_Witness ==
    /\ RegressionBranch
    /\ monthsAhead >= 2
    /\ \E i \in 0..(monthsAhead - 1) :
          /\ PreClamp(i) <= 0
          /\ Predicted[i + 1] = toFixed2(MeanExtrapolation(i))
    /\ \E i \in 0..(monthsAhead - 1) :
          /\ PreClamp(i) > 0 /\ PreClamp(i) < SmallestPrediction
          /\ Predicted[i + 1] = toFixed2(SmallestPrediction)

\* the series is constant: every entry equals the first
ConstantSeries(h) == \A i \in 1..Len(h) : h[i] = h[1]

\* what was added to regression x seasonal in month i (0-based) of the call made
NoiseAdded(i) == PreClamp(i) - seasoned(historicalData, nowMonth, i)

\* |x| is at most 5% of magnitude, up to the last digit kept (0.001)
WithinFivePercent(x, magnitude) == 20 * Abs(x) < magnitude + 20

\* C13 (as claimed): the noise added to each prediction is at most 5% of the
\* population standard deviation of the series or, when that is zero, at most
\* 5% of (10% of the mean); so for a constant series of value m the pre-clamp
\* prediction differs from regression x seasonal by at most 0.005 x m.
C13_Claim_NoiseBound ==
    RegressionBranch
    => \A i \in 0..(monthsAhead - 1) :
          \A nz \in {NoiseAdded(i)}, sd \in {stddev(historicalData)} :
             /\ sd # 0 => WithinFivePercent(nz, sd)
             /\ sd = 0 => WithinFivePercent(nz, mean(historicalData) \div 10)
             /\ ConstantSeries(historicalData) => 200 * Abs(nz) < historicalData[1] + 200

\* C13 (amended): the noise is at most 5% of the standard deviation or, when
\* that is zero, at most 5% of max(1, 10% of the mean); so for a constant series
\* of value m the pre-clamp prediction differs from regression x seasonal by
\* at most 0.05 x max(1, 0.1 x m), which is 0.005 x m from m = 10 kWh on.
C13_NoiseBound ==
    RegressionBranch
    => \A i \in 0..(monthsAhead - 1) :
          \A nz \in {NoiseAdded(i)}, sd \in {stddev(historicalData)} :
             LET tenth == mean(historicalData) \div 10
                 magnitude == IF tenth > Unit(1) THEN tenth ELSE Unit(1)
             IN  /\ sd # 0 => WithinFivePercent(nz, sd)
                 /\ sd = 0 => WithinFivePercent(nz, magnitude)
                 /\ ConstantSeries(historicalData) => WithinFivePercent(nz, magnitude)
                 /\ (ConstantSeries(historicalData) /\ historicalData[1] >= Unit(10))
                       => 200 * Abs(nz) < historicalData[1] + 200

\* C13 witness: a constant series of less than 10 kWh whose forecast drew the
\* lowest random value: the noise, 0.05 kWh, is more than 0.005 x m
C13_Witness ==
    /\ RegressionBranch
    /\ ConstantSeries(historicalData) /\ historicalData[1] = Unit(4)
    /\ stddev(historicalData) = 0
    /\ \E i \in 0..(monthsAhead - 1) :
          /\ randoms[i + 1] = 0
          /\ NoiseAdded(i) = -50
          /\ 200 * Abs(NoiseAdded(i)) > historicalData[1] + 200

\* the consumptions the tariff is compared on, in thousandths of a kWh: every
\* half kWh up to 60 kWh, and every thousandth within 0.01 kWh of the two tier
\* boundaries
TariffInputs ==
    {500 * k : k \in 0..120}
    \cup (Unit(Tier1Limit) - 10)..(Unit(Tier1Limit) + 10)
    \cup (Unit(Tier2Limit) - 10)..(Unit(Tier2Limit) + 10)

\* the formulas of the second and third tier (lines 193 and 194) taken at a
\* consumption p whatever its tier
tier2Formula(p) == Unit(Tier1Limit * Tier1Rate) + (p - Unit(Tier1Limit)) * Tier2Rate
tier3Formula(p) ==
    Unit(Tier1Limit * Tier1Rate) + Unit((Tier2Limit - Tier1Limit) * Tier2Rate)
    + (p - Unit(Tier2Limit)) * Tier3Rate

\* on TariffInputs: the bill never decreases as the consumption grows, before
\* and after its rounding, and a step of one thousandth of a kWh never raises
\* it by more than the highest rate
TariffNonDecreasing ==
    \A c1, c2 \in TariffInputs :
       c1 <= c2 => /\ tariff(c1) <= tariff(c2)
                   /\ toFixed2(tariff(c1)) <= toFixed2(tariff(c2))
TariffContinuous ==
    \A c \in TariffInputs :
       (c + 1) \in TariffInputs => tariff(c + 1) - tariff(c) <= Tier3Rate

\* C25: the tariff is continuous and non-decreasing in the consumption: at 20
\* kWh the first and second tier formulas both give 1780, at 50 kWh the second
\* and third both give 11080, the bill of c1 is at most the bill of c2 whenever
\* c1 <= c2, and the bills of a returned forecast are ordered as its predicted
\* consumptions are.
C25_TariffContinuousNonDecreasing ==
    /\ tariff(Unit(Tier1Limit)) = Unit(1780)
    /\ tier2Formula(Unit(Tier1Limit)) = Unit(1780)
    /\ tariff(Unit(Tier2Limit)) = Unit(11080)
    /\ tier3Formula(Unit(Tier2Limit)) = Unit(11080)
    /\ TariffContinuous
    /\ TariffNonDecreasing
    /\ returned
         => \A i, j \in 1..Len(Predicted) :
               JsLe(Predicted[i], Predicted[j]) => JsLe(Billed[i], Billed[j])

\* C25 witness: a returned forecast with a prediction in the first tier and a
\* larger one in the second, the second billed more
C25_Witness ==
    /\ returned
    /\ \E i, j \in 1..Len(Predicted) :
          /\ JsLe(Predicted[i], Unit(Tier1Limit))
          /\ JsGt(Predicted[j], Unit(Tier1Limit)) /\ JsLe(Predicted[j], Unit(Tier2Limit))
          /\ JsGt(Billed[j], Billed[i])
          /\ Billed[i] = toFixed2(tariff(Predicted[i]))
          /\ Billed[j] = toFixed2(tier2Formula(Predicted[j]))

-----------------------------------------------------------------------------
(* AnalysisSection: the forecast panel and fetchForecast, lines 52-61, 107-120, *)
(* 234-361, 480-531: Spec                                                     *)

\* a report's consumption field (number | string, or missing): what
\* parseFloat(String(consumption)) makes of it
parseFloat(c) == IF c.parses THEN c.value ELSE NaN

\* the reports the model takes, in the order the backend answers in, which is
\* not the order of their timestamps: a household whose reports all parse, and
\* one holding a report whose consumption does not (a missing field, a text)
ParsedReports ==
    <<[timestamp |-> 2, consumption |-> [parses |-> TRUE, value |-> Unit(10)]],
      [timestamp |-> 1, consumption |-> [parses |-> TRUE, value |-> Unit(60)]],
      [timestamp |-> 3, consumption |-> [parses |-> TRUE, value |-> Unit(30)]]>>
UnparsedReports ==
    <<[timestamp |-> 3, consumption |-> [parses |-> TRUE, value |-> Unit(30)]],
      [timestamp |-> 2, consumption |-> [parses |-> FALSE, value |-> 0]],
      [timestamp |-> 1, consumption |-> [parses |-> TRUE, value |-> Unit(60)]]>>

\* the first n reports of a household, taken round and round
FirstReports(order, n) == [i \in 1..n |-> order[((i - 1) % Len(order)) + 1]]

\* the lists of reports the section is given: up to MaxReports reports that
\* parse, and 3 or more with one that does not
ReportLists ==
    {FirstReports(ParsedReports, n) : n \in 0..MaxReports}
    \cup {FirstReports(UnparsedReports, n) : n \in 3..MaxReports}

\* [...reports].sort((a, b) => dateA - dateB): a stable sort by timestamp
RECURSIVE InsertByTimestamp(_, _)
InsertByTimestamp(sorted, r) ==
    IF Len(sorted) = 0 THEN <<r>>
    ELSE IF sorted[Len(sorted)].timestamp <= r.timestamp THEN Append(sorted, r)
    ELSE Append(InsertByTimestamp(SubSeq(sorted, 1, Len(sorted) - 1), r), sorted[Len(sorted)])
RECURSIVE SortByTimestamp(_, _)
SortByTimestamp(rs, k) ==
    IF k = 0 THEN <<>> ELSE InsertByTimestamp(SortByTimestamp(rs, k - 1), rs[k])

\* getUserHistoricalData, lines 111-120
getUserHistoricalData(rs) ==
    LET sortedReports == SortByTimestamp(rs, Len(rs))
    IN  [i \in 1..Len(rs) |-> parseFloat(sortedReports[i].consumption)]

\* hasEnoughDataForForecast, line 108
hasEnoughDataForForecast(rs) == Len(rs) >= 3

\* what the forecast endpoint answers with when it answers OK: the model keeps
\* the fields the panel reads and the server's own model name, which is never
\* 'client_fallback'
ServerForecast(m) ==
    [status |-> "success",
     forecast_months |-> 2,
     predictions |->
        <<[month |-> 11, predicted_consumption_kwh |-> Unit(40),
           predicted_bill_rwf |-> Unit(7980), tariff_bracket |-> "21-50 kWh",
           confidence |-> "medium"],
          [month |-> 0, predicted_consumption_kwh |-> Unit(18),
           predicted_bill_rwf |-> Unit(1602), tariff_bracket |-> "0-20 kWh",
           confidence |-> "medium"]>>,
     model_used |-> m]
ServerModels == {"sarima", "auto"}

\* the Math.random() draws a run's fallback takes: both ends of [0, 1)
SectionNoiseDraws == {0, 999}

Init ==
    /\ isAdmin \in BOOLEAN
    /\ reports \in ReportLists
    /\ showForecast = FALSE
    /\ forecastData = NoForecast
    /\ isLoading = FALSE
    /\ error = "null"
    /\ pc = "idle"
    /\ sarimaAvailable = "undefined"
    /\ runHistorical = <<>>
    /\ firstResponse = "none"
    /\ retryResponse = "none"
    /\ serverMessage = <<>>
    /\ forecastPosts = 0
    /\ sortKey = "month"
    /\ sortDir = "asc"
    /\ exportedCsv = 0
    /\ PredictionJustConstructed
    /\ FeedbackJustConstructed
    /\ BrowserJustOpened
    /\ AppJustConstructed
    /\ nowMonth = 10
    /\ historicalData = <<>>
    /\ monthsAhead = 2
    /\ result = NoForecast
    /\ randoms = <<>>

\* the finally block of lines 358-360, ending the run; the run's
\* sarimaAvailable, historicalData and serverMessage go out of scope
finallyBlock ==
    /\ isLoading' = FALSE
    /\ pc' = "idle"
    /\ sarimaAvailable' = "undefined"
    /\ runHistorical' = <<>>
    /\ serverMessage' = <<>>

\* setForecastData(computeClientFallbackForecast(historicalData, 2));
\* setShowForecast(true); return  (lines 330-333, 337-340, 345-348)
useFallback ==
    /\ \E draws \in [1..2 -> SectionNoiseDraws] :
          forecastData' = computeClientFallbackForecast(runHistorical, 2, nowMonth, draws)
    /\ showForecast' = TRUE
    /\ UNCHANGED error
    /\ finallyBlock

\* setForecastData(data); setShowForecast(true)  (lines 314-317, 351-353)
useServer(m) ==
    /\ forecastData' = ServerForecast(m)
    /\ showForecast' = TRUE
    /\ UNCHANGED error
    /\ finallyBlock

\* the outer catch of lines 354-357: setError(msg)
failWithErrorStillLoading ==
    /\ error' = "message"
    /\ UNCHANGED <<forecastData, showForecast, isLoading>>
    /\ pc' = "idle"
    /\ sarimaAvailable' = "undefined"
    /\ runHistorical' = <<>>
    /\ serverMessage' = <<>>
failWithError ==
    /\ error' = "message"
    /\ UNCHANGED <<forecastData, showForecast>>
    /\ finallyBlock

\* what the render shows, lines 472-531: nothing of the forecast when there is
\* no report; the Predict button and the error to a household; the forecast
\* panel, with its table, export and close buttons, when a forecast is held
sectionRendered == Len(reports) > 0
errorVisible == sectionRendered /\ ~isAdmin /\ error # "null"
panelVisible == sectionRendered /\ ~isAdmin /\ showForecast /\ forecastData # NoForecast

\* String.prototype.toLowerCase and includes, on texts held as sequences of
\* characters
UpperCase == <<"A", "B", "C", "D", "E", "F", "G", "H", "I", "J", "K", "L", "M",
               "N", "O", "P", "Q", "R", "S", "T", "U", "V", "W", "X", "Y", "Z">>
LowerCase == <<"a", "b", "c", "d", "e", "f", "g", "h", "i", "j", "k", "l", "m",
               "n", "o", "p", "q", "r", "s", "t", "u", "v", "w", "x", "y", "z">>
toLowerCase(str) ==
    [i \in 1..Len(str) |->
        IF \E k \in 1..26 : UpperCase[k] = str[i]
        THEN LowerCase[CHOOSE k \in 1..26 : UpperCase[k] = str[i]]
        ELSE str[i]]
includes(str, sub) ==
    \E k \in 0..(Len(str) - Len(sub)) : SubSeq(str, k + 1, k + Len(sub)) = sub

\* the texts read from a non-OK answer (lines 286-296): two that name SARIMA,
\* in capitals and not, and the `HTTP ${status}` of an answer without a body
ServerMessages ==
    {<<"S", "A", "R", "I", "M", "A", " ", "o", "f", "f">>,
     <<"n", "o", " ", "s", "a", "r", "i", "m", "a">>,
     <<"H", "T", "T", "P", " ", "5", "0", "0">>}

\* serverMessage.toLowerCase().includes('sarima'), line 300
mentionsAnything(msg) == Len(msg) > 0
mentionsSarima(msg) == includes(toLowerCase(msg), <<"s", "a", "r", "i", "m", "a">>)

\* fetchForecast up to its first await, lines 234-251.  The Predict button is
\* disabled while isLoading (line 494), so no run starts during another.  The
\* three branches are the function's own: the admin return, the return on
\* fewer than 3 reports, and the start of a run.
fetchForecast ==
    /\ pc = "idle"
    /\ ~isLoading
    /\ \/ /\ isAdmin
          /\ showForecast' = FALSE
          /\ forecastData' = NoForecast
          /\ error' = "null"
          /\ UNCHANGED <<isLoading, pc, sarimaAvailable, runHistorical, firstResponse,
                         retryResponse, serverMessage, forecastPosts>>
       \/ /\ ~isAdmin
          /\ ~hasEnoughDataForForecast(reports)
          /\ UNCHANGED <<showForecast, forecastData, error, isLoading, pc, sarimaAvailable,
                         runHistorical, firstResponse, retryResponse, serverMessage,
                         forecastPosts>>
       \/ /\ ~isAdmin
          /\ hasEnoughDataForForecast(reports)
          /\ isLoading' = TRUE
          /\ error' = "null"
          /\ pc' = "awaitStatus"
          /\ sarimaAvailable' = "undefined"
          /\ firstResponse' = "none"
          /\ retryResponse' = "none"
          /\ serverMessage' = <<>>
          /\ forecastPosts' = 0
          \* the run reads the reports of the render it was started from
          /\ runHistorical' = getUserHistoricalData(reports)
          /\ UNCHANGED <<showForecast, forecastData>>
    /\ UNCHANGED <<isAdmin, reports>>
    /\ UNCHANGED tableVars
    /\ UNCHANGED fallbackVars
    /\ UNCHANGED appVars
    /\ UNCHANGED browserVars

\* the status request settles, lines 250-258: sarima_available is read from an
\* OK answer; a non-OK answer, a rejected request and an unreadable body
\* leave it undefined.  The forecast POST of lines 275-282 is made.
statusSettled ==
    /\ pc = "awaitStatus"
    /\ sarimaAvailable' \in {"undefined", "true", "false"}
    /\ pc' = "awaitPost"
    /\ forecastPosts' = forecastPosts + 1
    /\ UNCHANGED <<isAdmin, reports, showForecast, forecastData, isLoading, error,
                   runHistorical, firstResponse, retryResponse, serverMessage>>
    /\ UNCHANGED tableVars
    /\ UNCHANGED fallbackVars
    /\ UNCHANGED appVars
    /\ UNCHANGED browserVars

\* the forecast POST settles, lines 275-285
postSettled ==
    /\ pc = "awaitPost"
    /\ \/ /\ firstResponse' = "rejected"
          /\ failWithError
       \/ /\ firstResponse' = "ok"
          /\ pc' = "awaitBody"
          /\ UNCHANGED <<showForecast, forecastData, isLoading, error, sarimaAvailable,
                         runHistorical, serverMessage>>
       \/ /\ firstResponse' = "notok"
          /\ pc' = "awaitErrorBody"
          /\ UNCHANGED <<showForecast, forecastData, isLoading, error, sarimaAvailable,
                         runHistorical, serverMessage>>
    /\ UNCHANGED <<isAdmin, reports, retryResponse, forecastPosts>>
    /\ UNCHANGED tableVars
    /\ UNCHANGED fallbackVars
    /\ UNCHANGED appVars
    /\ UNCHANGED browserVars

\* await response.json() of an OK answer settles, lines 351-353
bodySettledFallsBack ==
    /\ pc = "awaitBody"
    /\ \/ /\ firstResponse' = "ok_read"
          /\ \E m \in ServerModels : useServer(m)
       \/ /\ firstResponse' = "ok_unreadable"
          /\ useFallback
    /\ UNCHANGED <<isAdmin, reports, retryResponse, forecastPosts>>
    /\ UNCHANGED tableVars
    /\ UNCHANGED fallbackVars
    /\ UNCHANGED appVars
    /\ UNCHANGED browserVars
bodySettled ==
    /\ pc = "awaitBody"
    /\ \/ /\ firstResponse' = "ok_read"
          /\ \E m \in ServerModels : useServer(m)
       \/ /\ firstResponse' = "ok_unreadable"
          /\ failWithError
    /\ UNCHANGED <<isAdmin, reports, retryResponse, forecastPosts>>
    /\ UNCHANGED tableVars
    /\ UNCHANGED fallbackVars
    /\ UNCHANGED appVars
    /\ UNCHANGED browserVars

\* the message of a non-OK answer has been read, lines 286-300 and 343-348:
\* it names SARIMA, and the request is retried with model 'auto' (the POST of
\* lines 304-311 is made), or it does not, and the fallback is used
errorBodySettled ==
    /\ pc = "awaitErrorBody"
    /\ \E msg \in ServerMessages :
          IF mentionsSarima(msg)
          THEN /\ serverMessage' = msg
               /\ pc' = "awaitRetry"
               /\ forecastPosts' = forecastPosts + 1
               /\ UNCHANGED <<showForecast, forecastData, isLoading, error, sarimaAvailable,
                              runHistorical>>
          ELSE /\ useFallback
               /\ UNCHANGED forecastPosts
    /\ UNCHANGED <<isAdmin, reports, firstResponse, retryResponse>>
    /\ UNCHANGED tableVars
    /\ UNCHANGED fallbackVars
    /\ UNCHANGED appVars
    /\ UNCHANGED browserVars

\* the retry POST settles, lines 302-313 and 334-341
retrySettled ==
    /\ pc = "awaitRetry"
    /\ \/ /\ retryResponse' = "rejected"
          /\ useFallback
       \/ /\ retryResponse' = "ok"
          /\ pc' = "awaitRetryBody"
          /\ UNCHANGED <<showForecast, forecastData, isLoading, error, sarimaAvailable,
                         runHistorical, serverMessage>>
       \/ /\ retryResponse' = "notok"
          /\ pc' = "awaitRetryErrorBody"
          /\ UNCHANGED <<showForecast, forecastData, isLoading, error, sarimaAvailable,
                         runHistorical, serverMessage>>
    /\ UNCHANGED <<isAdmin, reports, firstResponse, forecastPosts>>
    /\ UNCHANGED tableVars
    /\ UNCHANGED fallbackVars
    /\ UNCHANGED appVars
    /\ UNCHANGED browserVars

\* await retryResp.json() of an OK retry settles, lines 313-318; when it rejects
\* the catch of lines 334-341 takes over
retryBodySettled ==
    /\ pc = "awaitRetryBody"
    /\ \/ /\ retryResponse' = "ok_read"
          /\ \E m \in ServerModels : useServer(m)
       \/ /\ retryResponse' = "ok_unreadable"
          /\ useFallback
    /\ UNCHANGED <<isAdmin, reports, firstResponse, forecastPosts>>
    /\ UNCHANGED tableVars
    /\ UNCHANGED fallbackVars
    /\ UNCHANGED appVars
    /\ UNCHANGED browserVars

\* the message of a non-OK retry has been read, lines 320-333
retryErrorBodySettled ==
    /\ pc = "awaitRetryErrorBody"
    /\ useFallback
    /\ UNCHANGED <<isAdmin, reports, firstResponse, retryResponse, forecastPosts>>
    /\ UNCHANGED tableVars
    /\ UNCHANGED fallbackVars
    /\ UNCHANGED appVars
    /\ UNCHANGED browserVars

\* the close button of the forecast panel, lines 521-531
closeForecast ==
    /\ panelVisible
    /\ showForecast' = FALSE
    /\ UNCHANGED <<isAdmin, reports, forecastData, isLoading, error, pc, sarimaAvailable,
                   runHistorical, firstResponse, retryResponse, serverMessage, forecastPosts>>
    /\ UNCHANGED tableVars
    /\ UNCHANGED fallbackVars
    /\ UNCHANGED appVars
    /\ UNCHANGED browserVars

\* the keys of the table's columns (lines 658-662), the columns whose header
\* the model clicks, and the ranks localeCompare orders the labels by
SortKeys == {"month", "consumption", "bill", "tariff", "confidence"}
ClickedKeys == {"month", "consumption"}
TariffRank(label) == IF label = "0-20 kWh" THEN 0 ELSE IF label = "21-50 kWh" THEN 1 ELSE 2
ConfidenceRank(label) == IF label = "low" THEN 0 ELSE IF label = "low-medium" THEN 1 ELSE 2

\* baseRows of lines 632-639
baseRows(ps) ==
    [i \in 1..Len(ps) |->
        [idx |-> i,
         consumption |-> ps[i].predicted_consumption_kwh,
         bill |-> ps[i].predicted_bill_rwf,
         tariff |-> ps[i].tariff_bracket,
         confidence |-> ps[i].confidence]]

\* the comparator of lines 640-648; a difference with NaN is NaN, which sort
\* takes as 0
compareRows(a, b, key, dir) ==
    LET diff(x, y) == IF IsNaN(x) \/ IsNaN(y) THEN 0 ELSE x - y
        comp == CASE key = "month" -> a.idx - b.idx
                  [] key = "consumption" -> diff(a.consumption, b.consumption)
                  [] key = "bill" -> diff(a.bill, b.bill)
                  [] key = "tariff" -> TariffRank(a.tariff) - TariffRank(b.tariff)
                  [] key = "confidence" -> ConfidenceRank(a.confidence) - ConfidenceRank(b.confidence)
    IN  IF dir = "asc" THEN comp ELSE -comp

\* rows = [...baseRows].sort(comparator): a stable sort
RECURSIVE InsertRow(_, _, _, _)
InsertRow(sorted, r, key, dir) ==
    IF Len(sorted) = 0 THEN <<r>>
    ELSE IF compareRows(sorted[Len(sorted)], r, key, dir) <= 0 THEN Append(sorted, r)
    ELSE Append(InsertRow(SubSeq(sorted, 1, Len(sorted) - 1), r, key, dir), sorted[Len(sorted)])
RECURSIVE SortRows(_, _, _, _)
SortRows(rs, k, key, dir) ==
    IF k = 0 THEN <<>> ELSE InsertRow(SortRows(rs, k - 1, key, dir), rs[k], key, dir)
rows(ps, key, dir) == SortRows(baseRows(ps), Len(ps), key, dir)

\* forecastData.predictions after a render with the given sort state, lines
\* 631-648: the table is sorted from [...baseRows], a copy of an array that map
\* made, so the array held in the state keeps its order
predictionsSortedInPlace(ps, key, dir) ==
    [i \in 1..Len(ps) |-> ps[rows(ps, key, dir)[i].idx]]
predictionsAfterRender(ps, key, dir) == ps

\* handleSort(key), lines 68-75, and the render that follows it
handleSort ==
    /\ panelVisible
    /\ \E key \in ClickedKeys :
          /\ IF sortKey = key
             THEN /\ sortDir' = (IF sortDir = "asc" THEN "desc" ELSE "asc")
                  /\ UNCHANGED sortKey
             ELSE /\ sortKey' = key
                  /\ sortDir' = "asc"
          /\ forecastData' =
                [forecastData EXCEPT !.predictions =
                    predictionsAfterRender(forecastData.predictions, sortKey', sortDir')]
    /\ UNCHANGED <<isAdmin, reports, showForecast, isLoading, error, exportedCsv, pc,
                   sarimaAvailable, runHistorical, firstResponse, retryResponse,
                   serverMessage, forecastPosts>>
    /\ UNCHANGED fallbackVars
    /\ UNCHANGED appVars
    /\ UNCHANGED browserVars

\* handleExportForecastCsv, lines 77-105: the header, one line per prediction
\* and the TOTAL line, built in arrays of its own
handleExportForecastCsv ==
    /\ panelVisible
    /\ exportedCsv' = 1 + Len(forecastData.predictions) + 1
    /\ UNCHANGED <<isAdmin, reports, showForecast, forecastData, isLoading, error, sortKey,
                   sortDir, pc, sarimaAvailable, runHistorical, firstResponse,
                   retryResponse, serverMessage, forecastPosts>>
    /\ UNCHANGED fallbackVars
    /\ UNCHANGED appVars
    /\ UNCHANGED browserVars

\* App renders the section with another reports array: setReports of
\* fetchReportsFromDB or handleGenerateReport (src/unnamed/part_000, lines 130,
\* 149 and 161)
reportsChanged ==
    /\ \E rs \in ReportLists :
          /\ rs # reports
          /\ reports' = rs
    /\ UNCHANGED <<isAdmin, showForecast, forecastData, isLoading, error, pc,
                   sarimaAvailable, runHistorical, firstResponse, retryResponse,
                   serverMessage, forecastPosts>>
    /\ UNCHANGED tableVars
    /\ UNCHANGED fallbackVars
    /\ UNCHANGED appVars
    /\ UNCHANGED browserVars

Next ==
    \/ fetchForecast
    \/ statusSettled
    \/ postSettled
    \/ bodySettled
    \/ errorBodySettled
    \/ retrySettled
    \/ retryBodySettled
    \/ retryErrorBodySettled
    \/ closeForecast
    \/ handleSort
    \/ handleExportForecastCsv
    \/ reportsChanged

Spec == Init /\ [][Next]_vars

-----------------------------------------------------------------------------
(* Properties of fetchForecast, checked under Spec *)

\* a step in which a fetchForecast run ends
runEnds == pc # "idle" /\ pc' = "idle"

FallbackStored == forecastData.model_used = "client_fallback"
ServerStored == forecastData.model_used \in ServerModels

\* C4 (as claimed): whenever the forecast request fails, by a non-OK answer or
\* by the request itself being rejected, the run ends with a client_fallback
\* forecast in forecastData, showForecast true and no error message.
C4_Claim_FallbackOnEveryFailure ==
    [][(runEnds /\ firstResponse' \in {"notok", "rejected"})
        => (FallbackStored' /\ showForecast' /\ error' = "null")]_vars

\* C5 (as claimed): a client_fallback result is stored only after the endpoint
\* returned a failure (and after the retry failed too, if one was made), and
\* whenever a forecast response is OK the forecast stored is the server's.
C5_Claim_FallbackOnlyAfterFailure ==
    [][(runEnds /\ error' = "null")
        => /\ FallbackStored' =>
                (firstResponse' = "notok" /\ retryResponse' \in {"none", "notok", "rejected"})
           /\ (firstResponse' \in {"ok_read", "ok_unreadable"}
                 \/ retryResponse' \in {"ok_read", "ok_unreadable"}) => ServerStored']_vars

\* C5 (amended): a run stores a client_fallback result only after the first
\* answer was non-OK and then only when no retry was made, the retry was
\* rejected or answered non-OK, or the retry answered OK with a body that
\* could not be read; whenever an OK answer's body is read, the forecast
\* stored is the server's.
C5_FallbackOnlyAfterFailureOrUnreadableRetry ==
    [][(runEnds /\ error' = "null")
        => /\ FallbackStored' =>
                (firstResponse' = "notok"
                   /\ retryResponse' \in {"none", "notok", "rejected", "ok_unreadable"})
           /\ (firstResponse' = "ok_read" \/ retryResponse' = "ok_read") => ServerStored']_vars

\* C5 witness: the retry answered OK, its body could not be read, and the
\* run ended with the fallback displayed
C5_Witness ==
    /\ pc = "idle"
    /\ firstResponse = "notok" /\ retryResponse = "ok_unreadable"
    /\ FallbackStored /\ showForecast /\ error = "null"

\* a step in which a fetchForecast run starts
runStarts == pc = "idle" /\ pc' # "idle"

\* a step of handleSort, of handleExportForecastCsv or of the close button
sortStep == <<sortKey, sortDir>>' # <<sortKey, sortDir>>
exportStep == exportedCsv' # exportedCsv
closeStep == ~isAdmin /\ pc' = pc /\ showForecast /\ ~showForecast'

\* C14: once stored, a forecast is never modified in place: a step of
\* handleSort, of the CSV export or of the close button leaves forecastData, and
\* the order of its predictions, as they were; forecastData changes only when
\* a run ends and stores a whole new forecast, or when the admin path clears it.
C14_ForecastNeverModifiedInPlace ==
    [][/\ (sortStep \/ exportStep \/ closeStep) => forecastData' = forecastData
       /\ forecastData' # forecastData
            => \/ runEnds /\ (ServerStored' \/ FallbackStored')
               \/ isAdmin /\ pc = "idle" /\ pc' = "idle" /\ forecastData' = NoForecast]_vars

\* C14 witness: a fallback forecast whose second month is the larger one is on
\* display, its table sorted by consumption, largest first, and exported
C14_Witness ==
    /\ panelVisible /\ FallbackStored
    /\ sortKey = "consumption" /\ sortDir = "desc"
    /\ exportedCsv = 4
    /\ JsGt(forecastData.predictions[2].predicted_consumption_kwh,
            forecastData.predictions[1].predicted_consumption_kwh)
    /\ rows(forecastData.predictions, sortKey, sortDir)[1].idx = 2

\* the text contains 'sarima', whatever the case of its letters
NamesSarima(msg) ==
    \E k \in 1..Len(msg) :
       /\ k + 5 <= Len(msg)
       /\ msg[k] \in {"s", "S"} /\ msg[k + 1] \in {"a", "A"} /\ msg[k + 2] \in {"r", "R"}
       /\ msg[k + 3] \in {"i", "I"} /\ msg[k + 4] \in {"m", "M"} /\ msg[k + 5] \in {"a", "A"}

\* C17: within one run the forecast endpoint is POSTed at most twice; the
\* second POST is made only after a first answer that was non-OK and whose
\* message contains 'sarima' in any case; and a run that made it ends with the
\* retry's server forecast or with the client fallback on display, never with
\* an error and never after a third request.
C17_AtMostTwoPosts ==
    [][/\ forecastPosts' <= 2
       /\ forecastPosts' > forecastPosts
            => \/ forecastPosts' = 1 /\ firstResponse' = "none"
               \/ /\ forecastPosts' = 2
                  /\ firstResponse' = "notok" /\ retryResponse' = "none"
                  /\ NamesSarima(serverMessage')
       /\ (runEnds /\ forecastPosts' = 2)
            => /\ \/ ServerStored' /\ retryResponse' = "ok_read"
                  \/ FallbackStored' /\ retryResponse' \in {"rejected", "notok", "ok_unreadable"}
               /\ showForecast' /\ error' = "null"]_vars

\* C17 witness: a run that POSTed twice, the retry answered non-OK, has ended
\* with the fallback on display
C17_Witness ==
    /\ pc = "idle" /\ forecastPosts = 2
    /\ firstResponse = "notok" /\ retryResponse = "notok"
    /\ FallbackStored /\ showForecast

\* the awaits a run can be suspended at, lines 250-353, and the positions of
\* the run
Awaits == {"awaitStatus", "awaitPost", "awaitBody", "awaitErrorBody", "awaitRetry",
           "awaitRetryBody", "awaitRetryErrorBody"}
Positions == Awaits \cup {"idle"}

\* a network call of the run settles: the await the run is suspended at (one
\* at most is pending at any time) is resumed and the run moves on.  Under
\* Next the steps that take a run from an await to another position are those
\* of statusSettled, postSettled, bodySettled, errorBodySettled, retrySettled,
\* retryBodySettled and retryErrorBodySettled, one of which is enabled at each
\* await.
networkSettles == pc \in Awaits /\ \E p \in Positions : pc' = p

\* each network call eventually settles
SpecSettling == Spec /\ WF_pc(networkSettles)

\* C18: provided each network call settles, a run that set isLoading to true
\* sets it back to false, on every path; isLoading is true exactly while a run
\* is under way; and while it is true no second run starts.
C18_LoadingEnds ==
    /\ isLoading ~> ~isLoading
    /\ [](isLoading <=> pc # "idle")
    /\ [][isLoading => ~runStarts]_vars

\* C18 witness: a run whose first request was rejected has ended with an error
\* message, and isLoading is false again
C18_Witness ==
    /\ pc = "idle" /\ ~isLoading
    /\ firstResponse = "rejected" /\ error # "null"

\* C19 (as claimed): an error message and a forecast are never displayed
\* together: whenever error is non-null, showForecast is false or forecastData
\* is null.
C19_Claim_ErrorHidesForecast ==
    error # "null" => (~showForecast \/ forecastData = NoForecast)

\* C20 (as claimed): no forecast request is sent and no forecast becomes
\* visible for an admin or with fewer than 3 reports; with fewer than 3 reports
\* fetchForecast changes no state; for an admin it only clears showForecast,
\* forecastData and error, never sets isLoading and sends nothing.
C20_Claim_NoForecastWithoutData ==
    [][/\ runStarts => (~isAdmin /\ Len(reports) >= 3)
       /\ (~panelVisible /\ panelVisible') => (~isAdmin /\ Len(reports') >= 3)
       /\ (fetchForecast /\ ~isAdmin /\ Len(reports) < 3) => UNCHANGED vars
       /\ (fetchForecast /\ isAdmin)
            => /\ ~showForecast' /\ forecastData' = NoForecast /\ error' = "null"
               /\ ~isLoading' /\ pc' = "idle" /\ forecastPosts' = forecastPosts
       /\ isAdmin => (~isLoading' /\ pc' = "idle")]_vars

-----------------------------------------------------------------------------
(* App: role, reports and fetchReportsFromDB, src/unnamed/part_000 lines     *)
(* 16-25, 39-41, 44-152: SpecApp                                             *)

\* currentHouseholdId (lines 19-25) and the id of another household
currentHouseholdId == "hh-1"
OtherHouseholdId == "hh-2"

Roles == {"Admin", "Household User"}
Sections == {"admin", "prediction", "analysis", "report", "settings"}

\* the menus of the Sidebar, src/unnamed/part_004 lines 215-230
adminMenu == {"admin", "analysis", "report", "settings"}
householdMenu == {"prediction", "analysis", "report", "settings"}
menuItems(r) == IF r = "Admin" THEN adminMenu ELSE householdMenu

\* the landing section the role effect sets, lines 39-41
landingSectionOfHousehold(r) == "prediction"
landingSection(r) == IF r = "Admin" THEN "admin" ELSE "prediction"

\* the documents of the backend as the Reports that lines 78-99 map them to
AllReports == [k \in 1..Len(database) |-> [id |-> k, ownerId |-> database[k]]]

\* the answer to /reports?ownerId=<id>&limit=200: the documents of that owner
OwnedBy(rs, owner) == SelectSeq(rs, LAMBDA r : r.ownerId = owner)

\* the answer to the primary request of lines 72-77, by the role the call was
\* made under
primaryAnswer(r) ==
    IF r = "Admin" THEN AllReports ELSE OwnedBy(AllReports, currentHouseholdId)

\* newReport of handleGenerateReport, lines 143-148: id Date.now(), which is
\* no document's id
newReport == [id |-> 0, ownerId |-> currentHouseholdId]

\* the backends App starts against: empty, holding the household's own report,
\* holding another household's, holding both
InitialDatabases ==
    {<<>>, <<currentHouseholdId>>, <<OtherHouseholdId>>,
     <<OtherHouseholdId, currentHouseholdId>>}

\* App after its first render and effects: the role effect (39-41) has set the
\* landing section and the effect of lines 137-140 has called fetchReportsFromDB
InitApp ==
    /\ role = "Household User"
    /\ activeSection = "prediction"
    /\ appReports = <<>>
    /\ database \in InitialDatabases
    /\ fetches = {[seq |-> 1, role |-> "Household User", stage |-> "primary"]}
    /\ issued = 1
    /\ reportsFrom = [seq |-> 0, role |-> "none"]
    /\ effectsPending = FALSE
    /\ historicalData = <<>>
    /\ monthsAhead = 2
    /\ nowMonth = 10
    /\ result = NoForecast
    /\ randoms = <<>>
    /\ isAdmin = FALSE
    /\ reports = <<>>
    /\ showForecast = FALSE
    /\ forecastData = NoForecast
    /\ isLoading = FALSE
    /\ error = "null"
    /\ pc = "idle"
    /\ sarimaAvailable = "undefined"
    /\ runHistorical = <<>>
    /\ firstResponse = "none"
    /\ retryResponse = "none"
    /\ serverMessage = <<>>
    /\ forecastPosts = 0
    /\ sortKey = "month"
    /\ sortDir = "asc"
    /\ exportedCsv = 0
    /\ PredictionJustConstructed
    /\ FeedbackJustConstructed
    /\ BrowserJustOpened

\* fetchReportsFromDB is called, lines 44-75: the call keeps the role of the
\* render it was made from and sends the primary request
callFetchReportsFromDB(r) ==
    /\ issued < MaxFetches
    /\ issued' = issued + 1
    /\ fetches' = fetches \cup {[seq |-> issued + 1, role |-> r, stage |-> "primary"]}

\* a role is picked in the Navbar (setSelectedRole={setRole}, line 185;
\* src/unnamed/part_004 lines 139-150): picking the role held changes nothing;
\* picking the other one renders App with it, the section as it was
setSelectedRole ==
    /\ ~effectsPending
    /\ issued < MaxFetches
    /\ \E r \in Roles :
          IF r = role
          THEN UNCHANGED <<role, effectsPending>>
          ELSE role' = r /\ effectsPending' = TRUE
    /\ UNCHANGED <<activeSection, appReports, database, fetches, issued, reportsFrom>>
    /\ UNCHANGED sectionVars
    /\ UNCHANGED fallbackVars
    /\ UNCHANGED browserVars

\* the effects that follow the render with a new role, before the next click
\* is handled: the landing section is set (lines 39-41) and fetchReportsFromDB
\* is called (lines 137-140)
roleEffects ==
    /\ effectsPending
    /\ effectsPending' = FALSE
    /\ activeSection' = landingSection(role)
    /\ callFetchReportsFromDB(role)
    /\ UNCHANGED <<role, appReports, database, reportsFrom>>
    /\ UNCHANGED sectionVars
    /\ UNCHANGED fallbackVars
    /\ UNCHANGED browserVars

\* an item of the Sidebar's menu is clicked (setActiveSection, line 179;
\* src/unnamed/part_004 lines 215-230)
setActiveSection ==
    /\ ~effectsPending
    /\ \E sec \in menuItems(role) : activeSection' = sec
    /\ UNCHANGED <<role, appReports, database, fetches, issued, reportsFrom, effectsPending>>
    /\ UNCHANGED sectionVars
    /\ UNCHANGED fallbackVars
    /\ UNCHANGED browserVars

\* handleGenerateReport, lines 142-152, called by the PredictionSection a
\* household sees (lines 158-159) once its save has completed or failed
handleGenerateReport ==
    /\ ~effectsPending
    /\ role = "Household User"
    /\ activeSection = "prediction"
    /\ Len(database) < MaxDocs
    /\ database' \in {database, Append(database, currentHouseholdId)}
    /\ appReports' = Append(appReports, newReport)
    /\ callFetchReportsFromDB(role)
    /\ UNCHANGED <<role, activeSection, reportsFrom, effectsPending>>
    /\ UNCHANGED sectionVars
    /\ UNCHANGED fallbackVars
    /\ UNCHANGED browserVars

\* another household saves a report of its own in the backend
otherHouseholdSaves ==
    /\ Len(database) < MaxDocs
    /\ database' = Append(database, OtherHouseholdId)
    /\ UNCHANGED <<role, activeSection, appReports, fetches, issued, reportsFrom,
                   effectsPending>>
    /\ UNCHANGED sectionVars
    /\ UNCHANGED fallbackVars
    /\ UNCHANGED browserVars

\* setReports(mapped), line 130, by the call f
setReports(f, mapped) ==
    /\ appReports' = mapped
    /\ reportsFrom' = [seq |-> f.seq, role |-> f.role]
    /\ fetches' = (fetches \ {f}) \cup {[f EXCEPT !.stage = "stored"]}

\* the catch of lines 131-133: the call ends and reports stay as they are
fetchFailed(f) ==
    /\ fetches' = (fetches \ {f}) \cup {[f EXCEPT !.stage = "failed"]}
    /\ UNCHANGED <<appReports, reportsFrom>>

\* the primary request of a call settles, lines 75-101: rejected, non-OK or
\* unreadable, the call ends in the catch; answered, a household's empty list
\* sends the request for all reports and any other list is stored
primarySettled ==
    /\ \E f \in fetches :
          /\ f.stage = "primary"
          /\ \/ fetchFailed(f)
             \/ IF f.role # "Admin" /\ Len(primaryAnswer(f.role)) = 0
                THEN /\ fetches' = (fetches \ {f}) \cup {[f EXCEPT !.stage = "fallback"]}
                     /\ UNCHANGED <<appReports, reportsFrom>>
                ELSE setReports(f, primaryAnswer(f.role))
    /\ UNCHANGED <<role, activeSection, database, issued, effectsPending>>
    /\ UNCHANGED sectionVars
    /\ UNCHANGED fallbackVars
    /\ UNCHANGED browserVars

\* the request for all reports of lines 101-129 settles: rejected or
\* unreadable, the call ends in the catch; non-OK, the empty list is stored;
\* answered, all the reports of the backend are
fallbackSettled ==
    /\ \E f \in fetches :
          /\ f.stage = "fallback"
          /\ \/ fetchFailed(f)
             \/ setReports(f, <<>>)
             \/ setReports(f, AllReports)
    /\ UNCHANGED <<role, activeSection, database, issued, effectsPending>>
    /\ UNCHANGED sectionVars
    /\ UNCHANGED fallbackVars
    /\ UNCHANGED browserVars

NextApp ==
    \/ setSelectedRole
    \/ roleEffects
    \/ setActiveSection
    \/ handleGenerateReport
    \/ otherHouseholdSaves
    \/ primarySettled
    \/ fallbackSettled

SpecApp == InitApp /\ [][NextApp]_vars

\* the effects of a committed render always run
SpecAppEffects == SpecApp /\ WF_vars(roleEffects)

\* renderSection, lines 154-175: what App shows in <main>
renderSectionUnguarded(sec, r) ==
    CASE sec = "admin" -> "AdminSection"
      [] sec = "prediction" -> "PredictionSection"
      [] sec = "analysis" -> "AnalysisSection"
      [] sec = "report" -> "ReportSection"
      [] sec = "settings" -> "SettingsSection"
      [] OTHER -> "PredictionSection"
renderSection(sec, r) ==
    CASE sec = "admin" -> IF r = "Admin" THEN "AdminSection" ELSE "Access denied."
      [] sec = "prediction" ->
            IF r = "Household User" THEN "PredictionSection"
            ELSE "Prediction accessible to household users only."
      [] sec = "analysis" -> "AnalysisSection"
      [] sec = "report" -> "ReportSection"
      [] sec = "settings" -> "SettingsSection"
      [] OTHER -> "PredictionSection"

\* reports as renderSection hands them to AnalysisSection and ReportSection,
\* lines 160-163
sectionReports == appReports

\* C15 (as claimed): while the role is Household User, every report held in
\* App's reports, and so every report handed to the Analysis and Report
\* sections, has ownerId equal to the current household id.
C15_Claim_HouseholdSeesOwnReports ==
    role = "Household User"
        => /\ \A i \in 1..Len(appReports) : appReports[i].ownerId = currentHouseholdId
           /\ \A i \in 1..Len(sectionReports) : sectionReports[i].ownerId = currentHouseholdId

\* the calls still waiting for an answer, and the call made last, which is the
\* one made for the current role
outstanding == {f \in fetches : f.stage \in {"primary", "fallback"}}
latestFetch == CHOOSE f \in fetches : f.seq = issued

\* C16 (as claimed): once all outstanding report fetches have completed,
\* App's reports are the result of the fetch issued for the current role (when
\* that fetch stored one), and the response to a fetch never overwrites the
\* result of a fetch issued later, whatever order the responses arrive in.
C16_Claim_LatestFetchWins ==
    /\ []((~effectsPending /\ outstanding = {} /\ latestFetch.stage = "stored")
            => (reportsFrom.seq = issued /\ reportsFrom.role = role))
    /\ [][reportsFrom'.seq >= reportsFrom.seq]_vars

\* C21: after every role change, once the role effect has run, the active
\* section is the landing page of the new role, 'admin' for Admin and
\* 'prediction' for Household User, whatever section was active before; a
\* role change always leaves the effect to run, and the effect does run.
C21_LandingSectionAfterRoleChange ==
    /\ [][/\ role' # role => effectsPending'
          /\ (effectsPending /\ ~effectsPending')
               => /\ role' = role
                  /\ role = "Admin" => activeSection' = "admin"
                  /\ role = "Household User" => activeSection' = "prediction"]_vars
    /\ effectsPending
         ~> /\ ~effectsPending
            /\ role = "Admin" => activeSection = "admin"
            /\ role = "Household User" => activeSection = "prediction"

\* C21 witness: after a switch to Admin and a switch back, both effects run,
\* the household is on its landing page
C21_Witness ==
    /\ issued = 3 /\ ~effectsPending
    /\ role = "Household User" /\ activeSection = "prediction"
    /\ \E f \in fetches : f.seq = 2 /\ f.role = "Admin"

\* C22: in every state reached by Sidebar clicks and role switches the
\* AdminSection is rendered only to an Admin and the PredictionSection only to
\* a Household User, and a section of the other role's menu alone yields a
\* message of refusal instead of the section.
C22_SectionsByRole ==
    \A shown \in {renderSection(activeSection, role)} :
       /\ activeSection \in Sections
       /\ shown = "AdminSection" => role = "Admin"
       /\ shown = "PredictionSection" => role = "Household User"
       /\ (activeSection \in adminMenu \ householdMenu /\ role # "Admin")
            => shown = "Access denied."
       /\ (activeSection \in householdMenu \ adminMenu /\ role # "Household User")
            => shown = "Prediction accessible to household users only."
       /\ ~effectsPending => activeSection \in menuItems(role)

\* C22 witness: the render that follows a switch to Admin made from the
\* prediction page, before the role effect: the refusal is shown
C22_Witness ==
    /\ effectsPending
    /\ role = "Admin" /\ activeSection = "prediction"
    /\ renderSection(activeSection, role) = "Prediction accessible to household users only."

-----------------------------------------------------------------------------
(* PredictionSection: calculatePredictions and the Calculate button,         *)
(* src/unnamed/part_006 lines 133-300 and 710-724: SpecPrediction            *)

\* the state other components are in while the PredictionSection is used
OthersAtRest ==
    /\ historicalData = <<>>
    /\ monthsAhead = 2
    /\ nowMonth = 10
    /\ result = NoForecast
    /\ randoms = <<>>
    /\ isAdmin = FALSE
    /\ reports = <<>>
    /\ showForecast = FALSE
    /\ forecastData = NoForecast
    /\ isLoading = FALSE
    /\ error = "null"
    /\ pc = "idle"
    /\ sarimaAvailable = "undefined"
    /\ runHistorical = <<>>
    /\ firstResponse = "none"
    /\ retryResponse = "none"
    /\ serverMessage = <<>>
    /\ forecastPosts = 0
    /\ sortKey = "month"
    /\ sortDir = "asc"
    /\ exportedCsv = 0
    /\ AppJustConstructed

InitPrediction ==
    /\ PredictionJustConstructed
    /\ FeedbackJustConstructed
    /\ BrowserJustOpened
    /\ OthersAtRest

\* what no action of the PredictionSection changes
predictionFrame ==
    /\ UNCHANGED <<feedback, backendFeedback, localStorage, clock, householdIds>>
    /\ UNCHANGED appVars
    /\ UNCHANGED sectionVars
    /\ UNCHANGED fallbackVars

\* disabled={appliances.length === 0 || isLoading || hasGeneratedReport}, line 712
calculateDisabledWhileLoading == prediction.appliances = 0 \/ prediction.isLoading
calculateDisabled ==
    prediction.appliances = 0 \/ prediction.isLoading \/ prediction.hasGeneratedReport

\* addAppliance with a filled-in appliance, lines 160-171
addAppliance ==
    /\ prediction.appliances < MaxAppliances
    /\ prediction' = [prediction EXCEPT !.appliances = @ + 1]
    /\ UNCHANGED reported
    /\ predictionFrame

\* removeAppliance, lines 173-175
removeAppliance ==
    /\ prediction.appliances > 0
    /\ prediction' = [prediction EXCEPT !.appliances = @ - 1]
    /\ UNCHANGED reported
    /\ predictionFrame

\* the household form is filled in, or one of its fields emptied (lines 655-704)
setHouseholdData ==
    /\ prediction' = [prediction EXCEPT
                         !.householdData = IF @ = "empty" THEN "filled" ELSE "empty"]
    /\ UNCHANGED reported
    /\ predictionFrame

\* a click on the Calculate button: calculatePredictions up to its first await,
\* lines 189-207.  The run keeps the hasGeneratedReport of the render it was
\* started from.
calculatePredictions ==
    /\ ~calculateDisabled
    /\ prediction.pc = "idle"
    /\ IF prediction.householdData = "empty" \/ prediction.appliances = 0
       THEN prediction' = [prediction EXCEPT !.error = "message"]
       ELSE prediction' = [prediction EXCEPT
                              !.isLoading = TRUE,
                              !.error = "null",
                              !.hasGeneratedReport = FALSE,
                              !.clickHasGeneratedReport = prediction.hasGeneratedReport,
                              !.pc = "awaitHealth"]
    /\ UNCHANGED reported
    /\ predictionFrame

\* the catch and finally of lines 292-301
predictionFailed ==
    prediction' = [prediction EXCEPT !.error = "message", !.isLoading = FALSE, !.pc = "idle"]

\* checkApiHealth settles, lines 176-187 and 207: it catches its own failures
healthSettled ==
    /\ prediction.pc = "awaitHealth"
    /\ \E status \in {"online", "offline"} :
          prediction' = [prediction EXCEPT !.apiStatus = status, !.pc = "awaitPredict"]
    /\ UNCHANGED reported
    /\ predictionFrame

\* the POST to /predict settles, lines 228-239: rejected, non-OK or OK
predictSettled ==
    /\ prediction.pc = "awaitPredict"
    /\ \/ predictionFailed
       \/ prediction' = [prediction EXCEPT !.pc = "awaitPredictErrorBody"]
       \/ prediction' = [prediction EXCEPT !.pc = "awaitPredictBody"]
    /\ UNCHANGED reported
    /\ predictionFrame

\* the body of a non-OK answer has been read or not, lines 236-239: it throws
predictErrorBodySettled ==
    /\ prediction.pc = "awaitPredictErrorBody"
    /\ predictionFailed
    /\ UNCHANGED reported
    /\ predictionFrame

\* the body of an OK answer settles, lines 241-274: unreadable or not of the
\* expected shape, it throws; read, setPredictions and the POST to /predictions
predictBodySettled ==
    /\ prediction.pc = "awaitPredictBody"
    /\ \/ predictionFailed
       \/ prediction' = [prediction EXCEPT
                            !.responses = @ + 1,
                            !.predictions = prediction.responses + 1,
                            !.pc = "awaitSave"]
    /\ UNCHANGED reported
    /\ predictionFrame

\* the POST to /predictions settles, one way or the other, lines 270-301:
\* onGenerateReport(predictionData) and setHasGeneratedReport(true) unless the
\* run was started with hasGeneratedReport true; setShowSuccess(true); then
\* the finally
saveSettled ==
    /\ prediction.pc = "awaitSave"
    /\ IF ~prediction.clickHasGeneratedReport
       THEN /\ reported' = Append(reported, prediction.predictions)
            /\ prediction' = [prediction EXCEPT
                                 !.hasGeneratedReport = TRUE, !.showSuccess = TRUE,
                                 !.isLoading = FALSE, !.pc = "idle"]
       ELSE /\ UNCHANGED reported
            /\ prediction' = [prediction EXCEPT !.showSuccess = TRUE,
                                                !.isLoading = FALSE, !.pc = "idle"]
    /\ predictionFrame

\* the timer of line 291 fires: setShowSuccess(false)
successTimeout ==
    /\ prediction.showSuccess
    /\ prediction' = [prediction EXCEPT !.showSuccess = FALSE]
    /\ UNCHANGED reported
    /\ predictionFrame

NextPrediction ==
    \/ addAppliance
    \/ removeAppliance
    \/ setHouseholdData
    \/ calculatePredictions
    \/ healthSettled
    \/ predictSettled
    \/ predictErrorBodySettled
    \/ predictBodySettled
    \/ saveSettled
    \/ successTimeout

SpecPrediction == InitPrediction /\ [][NextPrediction]_vars

\* C23: for any sequence of clicks on Calculate Prediction, onGenerateReport is
\* called at most once for each prediction response, never twice for the same
\* one, and from the call on hasGeneratedReport is true and the Calculate
\* button is disabled.
C23_ReportedOncePerPrediction ==
    /\ [](/\ \A i, j \in 1..Len(reported) : reported[i] = reported[j] => i = j
          /\ \A i \in 1..Len(reported) : reported[i] \in 1..prediction.responses
          /\ Len(reported) > 0 => (prediction.hasGeneratedReport /\ calculateDisabled))
    /\ [][/\ Len(reported') <= Len(reported) + 1
          /\ reported' # reported
               => /\ reported' = Append(reported, prediction'.responses)
                  /\ prediction'.hasGeneratedReport
                  /\ calculateDisabled']_vars

\* C23 witness: a run has succeeded with two appliances listed:
\* onGenerateReport has been called with the one prediction response and the
\* button is disabled
C23_Witness ==
    /\ reported = <<1>> /\ prediction.responses = 1
    /\ prediction.pc = "idle" /\ ~prediction.isLoading
    /\ prediction.hasGeneratedReport /\ calculateDisabled
    /\ prediction.error = "null" /\ prediction.appliances = 2

-----------------------------------------------------------------------------
(* FeedbackWidget: handleSubmit, src/unnamed/part_006 lines 1216-1293:       *)
(* SpecFeedback                                                              *)

\* String.prototype.trim on a text held as a sequence of characters
RECURSIVE trimStart(_)
trimStart(str) ==
    IF Len(str) > 0 /\ str[1] = " " THEN trimStart(Tail(str)) ELSE str
RECURSIVE trimEnd(_)
trimEnd(str) ==
    IF Len(str) > 0 /\ str[Len(str)] = " "
    THEN trimEnd(SubSeq(str, 1, Len(str) - 1)) ELSE str
trim(str) == trimEnd(trimStart(str))

\* the texts typed into a field of the form, and the stars clicked
FieldTexts == {<<>>, <<" ">>, <<"a", " ">>}
Ratings == {1, 5}

\* a payload left in the queue by an earlier visit
EarlierPayload ==
    [name |-> <<"b">>, location |-> <<"b">>, message |-> <<"b">>, rating |-> 3,
     createdAt |-> 0]

\* the 'pl_feedback_queue' items the widget starts with
InitialQueues ==
    {NoItem,
     [json |-> "array", items |-> <<EarlierPayload>>],
     [json |-> "object", items |-> <<>>],
     [json |-> "invalid", items |-> <<>>]}

InitFeedback ==
    /\ FeedbackJustConstructed
    /\ localStorage \in [pl_household_id : {StoredId(<<"h", "h", "-", "1">>)},
                        pl_feedback_queue : InitialQueues]
    /\ clock = 1
    /\ householdIds = <<>>
    /\ PredictionJustConstructed
    /\ OthersAtRest

\* what no action of the FeedbackWidget changes
feedbackFrame ==
    /\ UNCHANGED <<prediction, reported, clock, householdIds>>
    /\ UNCHANGED appVars
    /\ UNCHANGED sectionVars
    /\ UNCHANGED fallbackVars

\* canSubmit, line 1226
canSubmit ==
    /\ Len(trim(feedback.name)) > 0 /\ Len(trim(feedback.location)) > 0
    /\ Len(trim(feedback.message)) > 0 /\ feedback.rating > 0

\* the form is typed into, lines 1325-1357; its fields are disabled by nothing
typeFeedback ==
    /\ \/ \E t \in FieldTexts : feedback' = [feedback EXCEPT !.name = t]
       \/ \E t \in FieldTexts : feedback' = [feedback EXCEPT !.location = t]
       \/ \E t \in FieldTexts : feedback' = [feedback EXCEPT !.message = t]
       \/ \E n \in Ratings : feedback' = [feedback EXCEPT !.rating = n]
    /\ UNCHANGED <<backendFeedback, localStorage>>
    /\ feedbackFrame

\* handleSubmit up to its first await, lines 1236-1260; the submit button is
\* disabled while submitting (line 1368)
handleSubmit ==
    /\ feedback.pc = "idle"
    /\ ~feedback.submitting
    /\ IF ~canSubmit
       THEN feedback' = [feedback EXCEPT !.error = "message"]
       ELSE /\ feedback.submissions < MaxSubmissions
            /\ feedback' = [feedback EXCEPT
                               !.error = "null",
                               !.submitting = TRUE,
                               !.submissions = @ + 1,
                               !.payload = [name |-> trim(feedback.name),
                                            location |-> trim(feedback.location),
                                            message |-> trim(feedback.message),
                                            rating |-> feedback.rating,
                                            createdAt |-> feedback.submissions + 1],
                               !.pc = "awaitPost"]
    /\ UNCHANGED <<backendFeedback, localStorage>>
    /\ feedbackFrame

\* reset() and the finally, lines 1228-1233, 1286 and 1290-1292
feedbackDone(text) ==
    feedback' = [feedback EXCEPT
                    !.success = text,
                    !.name = <<>>, !.location = <<>>, !.message = <<>>, !.rating = 0,
                    !.submitting = FALSE, !.pc = "idle"]

\* the outer catch and the finally, lines 1288-1292
feedbackFailed ==
    feedback' = [feedback EXCEPT !.error = "message", !.submitting = FALSE, !.pc = "idle"]

\* the fallback of lines 1275-1286 after a POST that did not succeed: the queue
\* is read, the payload pushed and the queue written back; JSON.parse or push
\* throws on an item that is no array's text; setItem may throw (storage full
\* or refused), which line 1280 ignores
queueLocally ==
    LET item == localStorage.pl_feedback_queue
        prev == IF item.json = "null" THEN <<>> ELSE item.items
    IN  IF item.json \in {"invalid", "object"}
        THEN feedbackFailed /\ UNCHANGED localStorage
        ELSE /\ \/ localStorage' =
                      [localStorage EXCEPT !.pl_feedback_queue =
                          [json |-> "array", items |-> Append(prev, feedback.payload)]]
                \/ UNCHANGED localStorage
             /\ feedbackDone("saved locally")

\* the POST to /feedback settles, lines 1254-1271: OK, non-OK or rejected
feedbackPostSettled ==
    /\ feedback.pc = "awaitPost"
    /\ \/ /\ backendFeedback' = Append(backendFeedback, feedback.payload)
          /\ feedback' = [feedback EXCEPT !.pc = "awaitBody"]
          /\ UNCHANGED localStorage
       \/ /\ queueLocally
          /\ UNCHANGED backendFeedback
    /\ feedbackFrame

\* the body of the OK answer settles, lines 1261-1267, then lines 1280-1292
feedbackBodySettled ==
    /\ feedback.pc = "awaitBody"
    /\ feedbackDone("sent")
    /\ UNCHANGED <<backendFeedback, localStorage>>
    /\ feedbackFrame

\* the timer of line 1287 fires: setSuccess(null)
feedbackSuccessTimeout ==
    /\ feedback.success # "null"
    /\ feedback' = [feedback EXCEPT !.success = "null"]
    /\ UNCHANGED <<backendFeedback, localStorage>>
    /\ feedbackFrame

NextFeedback ==
    \/ typeFeedback
    \/ handleSubmit
    \/ feedbackPostSettled
    \/ feedbackBodySettled
    \/ feedbackSuccessTimeout

SpecFeedback == InitFeedback /\ [][NextFeedback]_vars

\* a step in which a handleSubmit run ends, and where its payload then is
submitEnds == feedback.pc # "idle" /\ feedback'.pc = "idle"
InBackend(pl) == \E i \in 1..Len(backendFeedback) : backendFeedback[i] = pl
InQueue(pl) ==
    \E i \in 1..Len(localStorage.pl_feedback_queue.items) :
       localStorage.pl_feedback_queue.items[i] = pl

\* C24 (as claimed): every valid feedback submission is delivered to exactly
\* one place: the backend answered OK to it, or it was appended to the
\* 'pl_feedback_queue' item with the entries queued before it kept; never
\* both, and never reported sent or saved while in neither; an invalid
\* submission sends and queues nothing.
C24_Claim_FeedbackDeliveredOnce ==
    [][/\ submitEnds
            => /\ InBackend(feedback.payload)' # InQueue(feedback.payload)'
               /\ InQueue(feedback.payload)'
                    => \E before \in {IF localStorage.pl_feedback_queue.json = "null"
                                      THEN <<>> ELSE localStorage.pl_feedback_queue.items} :
                          localStorage'.pl_feedback_queue.items
                             = Append(before, feedback.payload)
       /\ (feedback'.success # "null" /\ feedback.pc # "idle")
            => (InBackend(feedback.payload)' \/ InQueue(feedback.payload)')
       /\ (feedback.pc = "idle" /\ ~canSubmit)
            => UNCHANGED <<backendFeedback, localStorage>>]_vars

-----------------------------------------------------------------------------
(* App: the initializer of currentHouseholdId, src/unnamed/part_000 lines    *)
(* 19-25, over several starts that share one browser storage: SpecStart      *)

MaxStarts == 3
MaxClock == 3

\* the 'pl_household_id' items the first start may find: none, an empty text,
\* a text of blanks, an id, an id with blanks around it
InitialIds ==
    {NoId, StoredId(<<>>), StoredId(<<" ">>), StoredId(<<"h", "h", "-", "0">>),
     StoredId(<<" ", "x", " ">>)}

InitStart ==
    /\ localStorage \in [pl_household_id : InitialIds, pl_feedback_queue : {NoItem}]
    /\ clock = 1
    /\ householdIds = <<>>
    /\ FeedbackJustConstructed
    /\ PredictionJustConstructed
    /\ OthersAtRest

\* what no start of App changes
startFrame ==
    /\ UNCHANGED <<prediction, reported, feedback, backendFeedback>>
    /\ UNCHANGED appVars
    /\ UNCHANGED sectionVars
    /\ UNCHANGED fallbackVars

\* line 21 as written with every stored text taken for an id, blank or not
usesStoredUntrimmed(item) == item.stored /\ item.text # <<>>

\* line 21: stored && stored.trim(); null and the empty string are falsy
usesStored(item) == item.stored /\ item.text # <<>> /\ trim(item.text) # <<>>

\* line 22: `hh-${Date.now()}`
generated == <<"h", "h", "-", ToString(clock)>>

\* a start of App: the initializer of lines 19-25 runs once. setItem of line 23
\* either stores the id or throws (storage full or refused), which the catch
\* of the same line ignores
startApp ==
    /\ Len(householdIds) < MaxStarts
    /\ LET stored == localStorage.pl_household_id IN
       IF usesStored(stored)
       THEN /\ householdIds' = Append(householdIds, [id |-> stored.text, kept |-> TRUE])
            /\ UNCHANGED localStorage
       ELSE \/ /\ localStorage' = [localStorage EXCEPT
                                     !.pl_household_id = StoredId(generated)]
               /\ householdIds' = Append(householdIds, [id |-> generated, kept |-> TRUE])
            \/ /\ UNCHANGED localStorage
               /\ householdIds' = Append(householdIds, [id |-> generated, kept |-> FALSE])
    /\ UNCHANGED clock
    /\ startFrame

\* Date.now() moves on between starts
timePasses ==
    /\ clock < MaxClock
    /\ clock' = clock + 1
    /\ UNCHANGED <<localStorage, householdIds>>
    /\ startFrame

NextStart ==
    \/ startApp
    \/ timePasses

SpecStart == InitStart /\ [][NextStart]_vars

\* a step that is a start of App, the id that start yields, and an item whose
\* text has a character that is no blank
startStep == Len(householdIds') = Len(householdIds) + 1
startedId == householdIds'[Len(householdIds')].id
holdsId(item) == item.stored /\ \E k \in 1..Len(item.text) : item.text[k] # " "

\* C26 (as claimed): a start that finds a non-blank 'pl_household_id' uses it
\* unchanged and does not rewrite storage; a start that finds it absent or
\* blank generates a new id and stores it; so every later start yields the
\* same id as the first.
C26_Claim_HouseholdIdStable ==
    /\ [][startStep =>
            IF holdsId(localStorage.pl_household_id)
            THEN /\ startedId = localStorage.pl_household_id.text
                 /\ UNCHANGED localStorage
            ELSE /\ startedId = generated
                 /\ localStorage'.pl_household_id = StoredId(startedId)]_vars
    /\ [](\A i \in 1..Len(householdIds) : householdIds[i].id = householdIds[1].id)

\* C26 (amended): a start that finds a non-blank 'pl_household_id' uses it
\* unchanged and does not rewrite storage; a start that finds it absent or
\* blank generates a new id and tries to store it, and a failed write is
\* ignored, leaving storage as it was; every start after one whose id storage
\* held when it ended yields that same id.
C26_HouseholdIdStableOnceStored ==
    /\ [][startStep =>
            IF holdsId(localStorage.pl_household_id)
            THEN /\ startedId = localStorage.pl_household_id.text
                 /\ UNCHANGED localStorage
            ELSE /\ startedId = generated
                 /\ \/ localStorage'.pl_household_id = StoredId(startedId)
                    \/ UNCHANGED localStorage]_vars
    /\ [](\A i \in 1..Len(householdIds) : \A j \in i..Len(householdIds) :
             /\ householdIds[i].kept => householdIds[j].id = householdIds[i].id
             /\ householdIds[i].kept
                  => localStorage.pl_household_id = StoredId(householdIds[j].id))

\* three starts on a storage without an id: the first write fails, the second
\* start generates another id and stores it, the third start uses that one
C26_Witness ==
    /\ Len(householdIds) = 3
    /\ ~householdIds[1].kept /\ householdIds[2].kept
    /\ householdIds[1].id # householdIds[2].id
    /\ householdIds[3].id = householdIds[2].id
    /\ localStorage.pl_household_id = StoredId(householdIds[3].id)

====
